---- MODULE Spec2Model ----
(***************************************************************************)
(* The shape finder of the map normalizer: Connected-Component Labeling    *)
(* over a bitmap in three passes (ShapeFinder::pass1, ShapeFinder::pass2,  *)
(* ShapeFinder::mergeBorders), driven by ShapeFinder::findAllShapes.       *)
(* One step of the model is one iteration of the loop of the running pass, *)
(* or the code of findAllShapes between two passes. Beside the run stand   *)
(* the calls the GUI makes: ShapeFinder::estop and ShapeFinder::getStage   *)
(* from MainWindow::openInputMap, calcDims from MapDrawingArea::on_draw.   *)
(***************************************************************************)
EXTENDS Integers, Sequences, FiniteSets, TLC

\* ------------------------------------------------------------------ bounds
\* The images the model is run on: at most MaxWidth x MaxHeight, with at
\* most MaxPixels pixels; images of more than MaxMixedPixels pixels use one
\* non-border colour only.
MaxWidth == 4
MaxHeight == 3
MaxPixels == 12
MaxMixedPixels == 6
\* The validator's extent rule needs an image of 8 pixels or more each way
\* to tell a small shape from a large one: square images of LargeSide.
LargeSide == 8
\* The corners of the bounding boxes of a selection are within 0..MaxCoord.
MaxCoord == 3

\* -------------------------------------------------------- program constants
\* Coordinates are uint32_t: 0 - 1 wraps to 2^32 - 1, which is beyond the
\* integers TLC computes with. A wrapped coordinate is only ever compared
\* with the image's width and height (int, so below 2^31): the largest int
\* stands for it.
UINT32_WRAPPED == 2147483647
MIN_SHAPE_SIZE == 8

BORDER_COLOR == <<0, 0, 0>>
RED == <<255, 0, 0>>
GREEN == <<0, 255, 0>>
\* A value-initialised Color{}, as std::map::operator[] inserts it.
DefaultColor == <<0, 0, 0>>

Palette == {BORDER_COLOR, RED, GREEN}
MonoPalette == {BORDER_COLOR, RED}

\* What `new uint32_t[n]` may hold before pass1 writes it.
IndeterminateLabels == {0, 1}

ProvinceTypes == {"UNKNOWN", "LAND", "SEA", "LAKE"}

\* ShapeFinder::Stage, in the order of the enumeration; DONE is the last.
Stages == <<"SCANNING", "RESOLVING", "ABSORBING", "VALIDATING", "DONE">>

VARIABLES
    m_image,            \* the BitMap: [width, height, data]
    prog_opts,          \* [output_stages, no_gui]
    m_label_matrix,     \* index -> label
    m_label_parents,    \* std::map child label -> parent label
    m_border_pixels,    \* std::vector<Pixel>
    m_label_to_color,   \* std::map label -> Color
    next_label,         \* pass1's next_label
    num_border_pixels,  \* pass1's num_border_pixels
    label_to_shapeidx,  \* findAllShapes' map label -> index into shapes
    shapes,             \* the PolygonList being built
    generator,          \* the unique colour generator: type -> colours issued
    pc,                 \* "pass1", "pass2", "pass3", "done", "exception"
    x, y,               \* the raster cursor of pass1 and pass2
    border_i,           \* pass3's position in m_border_pixels (1-based)
    result,             \* the PolygonList findAllShapes returned
    errors,             \* the writeError calls made
    warnings,           \* the writeWarning calls made, in order
    run,                \* which run of findAllShapes this is (1 or 2)
    first_result,       \* what run 1 returned, kept for run 2
    m_do_estop,         \* set by estop(), called from the GUI thread
    m_stage,            \* what getStage() returns to the GUI thread
    m_selection,        \* MapDrawingArea's selection: an optional with a bounding_box
    preview_dims        \* the width and height on_draw computed for the selection

\* The SelectionManager of the mod development tool.
VARIABLES
    map_project,            \* what getCurrentMapProject() returns: nullopt or the project
    m_selected_provinces,   \* std::set<ProvinceID>
    m_on_province_selected_callback, \* the callback registered: "default" or "selectNode"
    province_callbacks,     \* the callback calls the latest event made, in order
    last_call               \* the latest event: [op, label, skip_callback]

selection_vars == <<map_project, m_selected_provinces,
                    m_on_province_selected_callback, province_callbacks,
                    last_call>>

\* The file tree part of the main window.
VARIABLES
    m_in_select_node,       \* MainWindowFileTreePart::m_in_select_node
    selected_rows,          \* the rows selected in m_tree_view
    select_node_calls       \* the selectNode calls the latest event made, in order

file_tree_vars == <<m_in_select_node, selected_rows, select_node_calls>>

\* The log file output function registered by main.
VARIABLES
    log_output_file,        \* the std::ofstream: [is_open, fail]
    disable_file_log_output, \* *disable_file_log_output
    messages,               \* the std::queue of messages not yet written
    log_file_contents,      \* the messages written to the log file, in order
    received,               \* the messages received while logging was not disabled
    next_message,           \* the number of the next message logged
    output_result,          \* what the latest call of the output function returned
    main_pc                 \* main: "registered" before, "running" after the log file is set up

log_vars == <<log_output_file, disable_file_log_output, messages,
              log_file_contents, received, next_message, output_result,
              main_pc>>

\* The signal handler of last resort.
VARIABLES
    last_resort_invoked,    \* lastResortHandler's static flag
    handler_pc,             \* per thread: where each of its lastResortHandler calls is, innermost last
    dump_sequences,         \* how many dump sequences have started
    process                 \* "running", "exited" or "terminated"

handler_vars == <<last_resort_invoked, handler_pc, dump_sequences, process>>

\* The tree model of the file tree part.
VARIABLES
    hierarchy,              \* the project's hierarchy, or nullopt
    m_model,                \* the HierarchyModel, or nullopt
    next_stamp,             \* HierarchyModel::next_stamp
    iter,                   \* the iterator the tree view holds and what made it, or nullopt
    tree_path               \* the path the tree view holds, or nullopt

hierarchy_vars == <<hierarchy, m_model, next_stamp, iter, tree_path>>

\* The state of the shell around the shape finder.
shell_vars == <<selection_vars, file_tree_vars, log_vars, handler_vars,
                hierarchy_vars>>

\* The state of the shape finder and of the map drawing area.
finder_vars == <<m_image, prog_opts, m_label_matrix, m_label_parents,
                 m_border_pixels, m_label_to_color, next_label,
                 num_border_pixels, label_to_shapeidx, shapes, generator,
                 pc, x, y, border_i, result, errors, warnings, run,
                 first_result, m_do_estop, m_stage, m_selection,
                 preview_dims>>

vars == <<m_image, prog_opts, m_label_matrix, m_label_parents, m_border_pixels,
          m_label_to_color, next_label, num_border_pixels, label_to_shapeidx,
          shapes, generator, pc, x, y, border_i, result, errors, warnings,
          run, first_result,
                   m_do_estop, m_stage, m_selection, preview_dims, shell_vars>>

\* ----------------------------------------------------------------- helpers
EmptyMap == [k \in {} |-> 0]

\* std::map: m[k] = v
MapPut(m, k, v) == [i \in (DOMAIN m) \cup {k} |-> IF i = k THEN v ELSE m[i]]

nullopt == [has_value |-> FALSE]
Some(v) == [has_value |-> TRUE, value |-> v]

Point2D(px, py) == [x |-> px, y |-> py]
Pixel(point, color) == [point |-> point, color |-> color]

\* v - 1 in uint32_t
Dec32(v) == IF v = 0 THEN UINT32_WRAPPED ELSE v - 1

Min(a, b) == IF a < b THEN a ELSE b
Max(a, b) == IF a > b THEN a ELSE b

\* The pixel grid: row-major, y * width + x.
xyToIndex(image, px, py) == py * image.width + px
getColorAt(image, px, py) == image.data[xyToIndex(image, px, py)]
isInImage(image, px, py) == px < image.width /\ py < image.height

\* ------------------------------------------------- unique colour generator
ResetGenerator == [t \in ProvinceTypes |-> 0]
\* The colour generateUniqueColor(type) returns in generator state g: the
\* next colour of that type, never issued since the last reset.
generateUniqueColor(g, type) == <<type, g[type] + 1>>
GeneratorAfter(g, type) == [g EXCEPT ![type] = @ + 1]
getProvinceType(color) ==
    IF color[1] > 0 THEN "LAND"
    ELSE IF color[3] > 0 THEN "SEA"
    ELSE IF color[2] > 0 THEN "LAKE"
    ELSE "UNKNOWN"

\* ----------------------------------------------------------------- images
Dims == {d \in (1..MaxWidth) \X (1..MaxHeight) : d[1] * d[2] <= MaxPixels}
PaletteFor(d) == IF d[1] * d[2] <= MaxMixedPixels THEN Palette ELSE MonoPalette
Images ==
    UNION {{[width |-> d[1], height |-> d[2], data |-> data] :
              data \in [0..(d[1] * d[2] - 1) -> PaletteFor(d)]} : d \in Dims}
\* The images of LargeSide x LargeSide with one pixel, red or border, on a
\* ground of green or of border.
LargeImages ==
    {[width |-> LargeSide, height |-> LargeSide,
      data |-> [i \in 0..(LargeSide * LargeSide - 1) |->
                   IF i = at THEN mark ELSE ground]] :
        at \in 0..(LargeSide * LargeSide - 1),
        mark \in {RED, BORDER_COLOR},
        ground \in {GREEN, BORDER_COLOR}}
ProgOpts == {[output_stages |-> FALSE, no_gui |-> TRUE],
             [output_stages |-> TRUE, no_gui |-> FALSE]}

\* NewShapeFinder with the border buffer of the previous ShapeFinder kept.
NewShapeFinderStale(image, garbage) ==
    /\ m_label_matrix' = [i \in 0..(image.width * image.height - 1) |-> garbage]
    /\ m_label_parents' = EmptyMap
    /\ m_border_pixels' = m_border_pixels
    /\ m_label_to_color' = EmptyMap

\* ShapeFinder::ShapeFinder: the members as the constructor leaves them,
\* the label matrix allocated and not initialised.
NewShapeFinder(image, garbage) ==
    /\ m_label_matrix' = [i \in 0..(image.width * image.height - 1) |-> garbage]
    /\ m_label_parents' = EmptyMap
    /\ m_border_pixels' = <<>>
    /\ m_label_to_color' = EmptyMap

\* A ShapeFinder constructed over one of the given images, findAllShapes
\* about to start: estop() not called, the stage the first of Stages.
InitShapeFinder(images) ==
    /\ m_image \in images
    /\ prog_opts \in ProgOpts
    /\ \E garbage \in IndeterminateLabels :
         m_label_matrix = [i \in 0..(m_image.width * m_image.height - 1) |-> garbage]
    /\ m_label_parents = EmptyMap
    /\ m_border_pixels = <<>>
    /\ m_label_to_color = EmptyMap
    /\ next_label = 1
    /\ num_border_pixels = 0
    /\ label_to_shapeidx = EmptyMap
    /\ shapes = <<>>
    /\ generator = ResetGenerator
    /\ pc = "pass1"
    /\ x = 0
    /\ y = 0
    /\ border_i = 1
    /\ result = <<>>
    /\ errors = 0
    /\ warnings = <<>>
    /\ run = 1
    /\ first_result = <<>>
    /\ m_do_estop = FALSE
    /\ m_stage = Stages[1]

\* The GUI has no province selected.
NoSelection ==
    /\ m_selection = nullopt
    /\ preview_dims = nullopt

\* ------------------------------------------------------ SelectionManager
MaxProvinceID == 3
MaxDepth == 3

\* The ID the CLEAR callback is given; no province has it.
INVALID_PROVINCE == 0

ProvinceIDs == 1..MaxProvinceID

\* The IDs a caller may pass: the possible province IDs and the invalid one.
Labels == ProvinceIDs \cup {INVALID_PROVINCE}

\* A map project, as far as the SelectionManager sees it: the province IDs
\* its province project holds.
MapProjects == {[provinces |-> ids] : ids \in SUBSET ProvinceIDs}

\* SelectionManager::getCurrentMapProject: the Driver's project, or nullopt.
getCurrentMapProject == map_project

\* IProvinceProject::isValidProvinceID: the project holds a province of
\* that ID.
isValidProvinceID(mproj, label) == label \in mproj.provinces

\* The SelectionManager as constructed: nothing selected and callbacks that
\* do nothing.
InitSelectionManager ==
    /\ m_selected_provinces = {}
    /\ m_on_province_selected_callback = "default"
    /\ province_callbacks = <<>>
    /\ last_call = nullopt

\* The file tree part as constructed: no selectNode call running, no row
\* selected.
InitFileTreePart ==
    /\ m_in_select_node = FALSE
    /\ selected_rows = {}
    /\ select_node_calls = <<>>

\* No project is open, the SelectionManager and the file tree part are as
\* constructed.
NoProject ==
    /\ map_project = nullopt
    /\ InitSelectionManager
    /\ InitFileTreePart

\* ------------------------------------------------------------ log file
MaxMessages == 6

\* The std::ofstream as constructed: not open, no error flag set.
ClosedStream == [is_open |-> FALSE, fail |-> FALSE]

\* main after registering the file output function.
InitLogging ==
    /\ log_output_file = ClosedStream
    /\ disable_file_log_output = FALSE
    /\ messages = <<>>
    /\ log_file_contents = <<>>
    /\ received = <<>>
    /\ next_message = 1
    /\ output_result = nullopt
    /\ main_pc = "registered"

\* ------------------------------------------------------- signal handler
MaxThreads == 2
MaxFrames == 2

Threads == 1..MaxThreads

\* No signal delivered yet: no thread is in the handler.
InitHandler ==
    /\ last_resort_invoked = FALSE
    /\ handler_pc = [t \in Threads |-> <<>>]
    /\ dump_sequences = 0
    /\ process = "running"

\* ------------------------------------------------------- hierarchy model
MaxNodes == 3
MaxStamp == 2

\* No project opened yet: no hierarchy and no model.
InitHierarchyModel ==
    /\ hierarchy = nullopt
    /\ m_model = nullopt
    /\ next_stamp = 0
    /\ iter = nullopt
    /\ tree_path = nullopt

\* The shell at rest beside a run of the shape finder.
ShellIdle ==
    /\ NoProject
    /\ InitLogging
    /\ InitHandler
    /\ InitHierarchyModel

Init == InitShapeFinder(Images) /\ NoSelection /\ ShellIdle

\* ------------------------------------------------------- getAdjacentPixel
\* getAdjacentPixel without the test of the neighbour's colour.
getAdjacentPixelAnyColor(image, point, dir1) ==
    IF dir1 = "NONE" THEN nullopt
    ELSE
      LET adjacent ==
            CASE dir1 = "LEFT"  -> Point2D(Dec32(point.x), point.y)
              [] dir1 = "RIGHT" -> Point2D(point.x + 1, point.y)
              [] dir1 = "UP"    -> Point2D(point.x, Dec32(point.y))
              [] dir1 = "DOWN"  -> Point2D(point.x, point.y + 1)
      IN IF isInImage(image, adjacent.x, adjacent.y)
         THEN Some(adjacent)
         ELSE nullopt

\* ShapeFinder::getAdjacentPixel(point, dir1) with dir2 = Direction::NONE:
\* the neighbour in direction dir1 when it is in the image and not a border
\* pixel, std::nullopt otherwise. Coordinates are uint32_t.
getAdjacentPixel(image, point, dir1) ==
    IF dir1 = "NONE" THEN nullopt
    ELSE
      LET adjacent ==
            CASE dir1 = "LEFT"  -> Point2D(Dec32(point.x), point.y)
              [] dir1 = "RIGHT" -> Point2D(point.x + 1, point.y)
              [] dir1 = "UP"    -> Point2D(point.x, Dec32(point.y))
              [] dir1 = "DOWN"  -> Point2D(point.x, point.y + 1)
      IN IF /\ isInImage(image, adjacent.x, adjacent.y)
            /\ getColorAt(image, adjacent.x, adjacent.y) # BORDER_COLOR
         THEN Some(adjacent)
         ELSE nullopt

\* getLabelAndColor without the check of the colour against `color`.
getLabelAndColorNoCheck(image, matrix, point, color) ==
    [label |-> matrix[xyToIndex(image, point.x, point.y)],
     color |-> getColorAt(image, point.x, point.y),
     warned |-> FALSE]

\* getLabelAndColor resetting the label and the colour without the warning.
getLabelAndColorSilent(image, matrix, point, color) ==
    LET label == matrix[xyToIndex(image, point.x, point.y)]
        color_at == getColorAt(image, point.x, point.y)
    IN IF color_at # BORDER_COLOR /\ color_at # color
       THEN [label |-> 0, color |-> BORDER_COLOR, warned |-> FALSE]
       ELSE [label |-> label, color |-> color_at, warned |-> FALSE]

\* ShapeFinder::getLabelAndColor: the label and colour at point, both reset
\* to the defaults (with a warning) when the colour there is neither the
\* border colour nor `color`.
getLabelAndColor(image, matrix, point, color) ==
    LET label == matrix[xyToIndex(image, point.x, point.y)]
        color_at == getColorAt(image, point.x, point.y)
    IN IF color_at # BORDER_COLOR /\ color_at # color
       THEN [label |-> 0, color |-> BORDER_COLOR, warned |-> TRUE]
       ELSE [label |-> label, color |-> color_at, warned |-> FALSE]

MixedColorWarning(point) == [kind |-> "multiple_colors", point |-> point]

\* ShapeFinder::getRootLabel: follow m_label_parents from label until a label
\* with no entry. A walk over distinct entries is at most as long as the
\* map; one that is longer has met a cycle and the loop never ends.
RECURSIVE RootWalk(_, _, _)
RootWalk(parents, root, fuel) ==
    IF root \notin DOMAIN parents THEN [terminates |-> TRUE, root |-> root]
    ELSE IF fuel = 0 THEN [terminates |-> FALSE, root |-> root]
    ELSE RootWalk(parents, parents[root], fuel - 1)

\* getRootLabel with `if` for `while`: one step up, not the walk to the root.
getRootLabelOneStep(parents, label) ==
    [terminates |-> TRUE,
     root |-> IF label \in DOMAIN parents THEN parents[label] ELSE label]

getRootLabel(parents, label) ==
    RootWalk(parents, label, Cardinality(DOMAIN parents))

\* ------------------------------------------------------------------ pass1
\* RecordParent with the two labels swapped: the smaller becomes the child.
RecordParentSwapped(parents, larger, smaller) == MapPut(parents, smaller, larger)

\* RecordParent that leaves alone a label that has a parent already.
RecordParentIfAbsent(parents, larger, smaller) ==
    IF larger \in DOMAIN parents THEN parents ELSE MapPut(parents, larger, smaller)

\* The merge pass1 records when the left and the up label disagree.
RecordParent(parents, larger, smaller) == MapPut(parents, larger, smaller)

\* Pass1Label taking the up label, not the smaller, when the left and the
\* up label disagree.
Pass1LabelUp(px, py, color) ==
    LET point == Point2D(px, py)
        left == getAdjacentPixel(m_image, point, "LEFT")
        up == getAdjacentPixel(m_image, point, "UP")
        none == [label |-> 0, color |-> BORDER_COLOR, warned |-> FALSE]
        l == IF left.has_value
             THEN getLabelAndColor(m_image, m_label_matrix, left.value, color)
             ELSE none
        u == IF up.has_value
             THEN getLabelAndColor(m_image, m_label_matrix, up.value, color)
             ELSE none
        label1 == IF l.color # BORDER_COLOR THEN l.label ELSE next_label
        merges == /\ u.color # BORDER_COLOR
                  /\ label1 # next_label
                  /\ label1 # u.label
        label == IF u.color # BORDER_COLOR
                 THEN IF label1 # next_label
                      THEN IF label1 # u.label
                           THEN u.label
                           ELSE label1
                      ELSE u.label
                 ELSE label1
    IN [label |-> label,
        parents |-> IF merges
                    THEN RecordParent(m_label_parents,
                                      Max(label1, u.label), Min(label1, u.label))
                    ELSE m_label_parents,
        warnings |-> (IF l.warned THEN <<MixedColorWarning(left.value)>> ELSE <<>>)
                     \o (IF u.warned THEN <<MixedColorWarning(up.value)>> ELSE <<>>)]

\* The label pass1 gives the non-border pixel (px, py) of colour `color`, with
\* the parent map and the warnings that result.
Pass1Label(px, py, color) ==
    LET point == Point2D(px, py)
        left == getAdjacentPixel(m_image, point, "LEFT")
        up == getAdjacentPixel(m_image, point, "UP")
        none == [label |-> 0, color |-> BORDER_COLOR, warned |-> FALSE]
        l == IF left.has_value
             THEN getLabelAndColor(m_image, m_label_matrix, left.value, color)
             ELSE none
        u == IF up.has_value
             THEN getLabelAndColor(m_image, m_label_matrix, up.value, color)
             ELSE none
        label1 == IF l.color # BORDER_COLOR THEN l.label ELSE next_label
        merges == /\ u.color # BORDER_COLOR
                  /\ label1 # next_label
                  /\ label1 # u.label
        label == IF u.color # BORDER_COLOR
                 THEN IF label1 # next_label
                      THEN IF label1 # u.label
                           THEN Min(label1, u.label)
                           ELSE label1
                      ELSE u.label
                 ELSE label1
    IN [label |-> label,
        parents |-> IF merges
                    THEN RecordParent(m_label_parents,
                                      Max(label1, u.label), Min(label1, u.label))
                    ELSE m_label_parents,
        warnings |-> (IF l.warned THEN <<MixedColorWarning(left.value)>> ELSE <<>>)
                     \o (IF u.warned THEN <<MixedColorWarning(up.value)>> ELSE <<>>)]

\* Pass1Step without the reset of a border pixel's label: the entry keeps
\* the next_label written to it at the top of the loop body.
Pass1StepNoReset ==
    /\ pc = "pass1"
    /\ y < m_image.height
    /\ LET color == getColorAt(m_image, x, y)
           index == xyToIndex(m_image, x, y)
       IN IF color = BORDER_COLOR
          THEN /\ m_label_matrix' = [m_label_matrix EXCEPT ![index] = next_label]
               /\ num_border_pixels' = num_border_pixels + 1
               /\ UNCHANGED <<m_label_parents, next_label, m_label_to_color,
                              generator, warnings>>
          ELSE LET r == Pass1Label(x, y, color)
                   debug == prog_opts.output_stages \/ ~prog_opts.no_gui
                   fresh == r.label \notin DOMAIN m_label_to_color
               IN /\ m_label_matrix' = [m_label_matrix EXCEPT ![index] = r.label]
                  /\ m_label_parents' = r.parents
                  /\ next_label' = IF r.label = next_label
                                   THEN next_label + 1 ELSE next_label
                  /\ warnings' = warnings \o r.warnings
                  /\ IF fresh /\ debug
                     THEN /\ m_label_to_color' =
                               MapPut(m_label_to_color, r.label,
                                      generateUniqueColor(generator, "UNKNOWN"))
                          /\ generator' = GeneratorAfter(generator, "UNKNOWN")
                     ELSE /\ m_label_to_color' =
                               IF fresh
                               THEN MapPut(m_label_to_color, r.label, DefaultColor)
                               ELSE m_label_to_color
                          /\ UNCHANGED generator
                  /\ UNCHANGED num_border_pixels
    /\ IF x + 1 < m_image.width
       THEN x' = x + 1 /\ y' = y
       ELSE x' = 0 /\ y' = y + 1
    /\ UNCHANGED <<m_image, prog_opts, m_border_pixels, label_to_shapeidx,
                   shapes, pc, border_i, result, errors, run, first_result,
                   m_do_estop, m_stage, m_selection, preview_dims, shell_vars>>

\* One iteration of pass1's loop, at pixel (x, y).
Pass1Step ==
    /\ pc = "pass1"
    /\ y < m_image.height
    /\ LET color == getColorAt(m_image, x, y)
           index == xyToIndex(m_image, x, y)
       IN IF color = BORDER_COLOR
          THEN /\ m_label_matrix' = [m_label_matrix EXCEPT ![index] = 0]
               /\ num_border_pixels' = num_border_pixels + 1
               /\ UNCHANGED <<m_label_parents, next_label, m_label_to_color,
                              generator, warnings>>
          ELSE LET r == Pass1Label(x, y, color)
                   debug == prog_opts.output_stages \/ ~prog_opts.no_gui
                   fresh == r.label \notin DOMAIN m_label_to_color
               IN /\ m_label_matrix' = [m_label_matrix EXCEPT ![index] = r.label]
                  /\ m_label_parents' = r.parents
                  /\ next_label' = IF r.label = next_label
                                   THEN next_label + 1 ELSE next_label
                  /\ warnings' = warnings \o r.warnings
                  /\ IF fresh /\ debug
                     THEN /\ m_label_to_color' =
                               MapPut(m_label_to_color, r.label,
                                      generateUniqueColor(generator, "UNKNOWN"))
                          /\ generator' = GeneratorAfter(generator, "UNKNOWN")
                     ELSE /\ m_label_to_color' =
                               IF fresh
                               THEN MapPut(m_label_to_color, r.label, DefaultColor)
                               ELSE m_label_to_color
                          /\ UNCHANGED generator
                  /\ UNCHANGED num_border_pixels
    /\ IF x + 1 < m_image.width
       THEN x' = x + 1 /\ y' = y
       ELSE x' = 0 /\ y' = y + 1
    /\ UNCHANGED <<m_image, prog_opts, m_border_pixels, label_to_shapeidx,
                   shapes, pc, border_i, result, errors, run, first_result,
                   m_do_estop, m_stage, m_selection, preview_dims, shell_vars>>

\* findAllShapes between pass1 and pass2: pass1 returns, the border buffer is
\* reserved, the first stage is written out if asked for.
Pass1Return ==
    /\ pc = "pass1"
    /\ y >= m_image.height
    /\ m_label_to_color' = IF prog_opts.output_stages
                           THEN MapPut(m_label_to_color, 0, BORDER_COLOR)
                           ELSE m_label_to_color
    /\ pc' = "pass2"
    /\ x' = 0
    /\ y' = 0
    /\ UNCHANGED <<m_image, prog_opts, m_label_matrix, m_label_parents,
                   m_border_pixels, next_label, num_border_pixels,
                   label_to_shapeidx, shapes, generator, border_i, result,
                   errors, warnings, run, first_result,
                   m_do_estop, m_stage, m_selection, preview_dims, shell_vars>>

\* ------------------------------------------------------------------ pass2
\* The Polygon buildShape pushes for a label it has not met: no pixels, both
\* corners of the bounding box at (0, 0).
NewPolygon(color, unique_color) ==
    [pixels |-> <<>>,
     color |-> color,
     unique_color |-> unique_color,
     bottom_left |-> Point2D(0, 0),
     top_right |-> Point2D(0, 0)]

\* addPixelToShape comparing with the wrong corner: top_right follows every
\* pixel beyond bottom_left.
addPixelToShapeWrongCorner(shape, pixel) ==
    LET px == pixel.point.x
        py == pixel.point.y
    IN [shape EXCEPT
          !.pixels = Append(@, pixel),
          !.top_right =
              Point2D(IF px > shape.bottom_left.x THEN px ELSE shape.top_right.x,
                      IF py > shape.bottom_left.y THEN py ELSE shape.top_right.y)]

\* addPixelToShape putting the pixel at the front of the pixel list.
addPixelToShapeFront(shape, pixel) ==
    LET px == pixel.point.x
        py == pixel.point.y
    IN [shape EXCEPT
          !.pixels = <<pixel>> \o @,
          !.top_right =
              Point2D(IF px > shape.top_right.x THEN px ELSE shape.top_right.x,
                      IF py > shape.top_right.y THEN py ELSE shape.top_right.y),
          !.bottom_left =
              Point2D(IF px > shape.top_right.x THEN shape.bottom_left.x
                      ELSE IF px < shape.bottom_left.x THEN px
                      ELSE shape.bottom_left.x,
                      IF py > shape.top_right.y THEN shape.bottom_left.y
                      ELSE IF py < shape.bottom_left.y THEN py
                      ELSE shape.bottom_left.y)]

\* addPixelToShape: append the pixel, grow the bounding box.
addPixelToShape(shape, pixel) ==
    LET px == pixel.point.x
        py == pixel.point.y
    IN [shape EXCEPT
          !.pixels = Append(@, pixel),
          !.top_right =
              Point2D(IF px > shape.top_right.x THEN px ELSE shape.top_right.x,
                      IF py > shape.top_right.y THEN py ELSE shape.top_right.y),
          !.bottom_left =
              Point2D(IF px > shape.top_right.x THEN shape.bottom_left.x
                      ELSE IF px < shape.bottom_left.x THEN px
                      ELSE shape.bottom_left.x,
                      IF py > shape.top_right.y THEN shape.bottom_left.y
                      ELSE IF py < shape.bottom_left.y THEN py
                      ELSE shape.bottom_left.y)]

\* buildShape returning right after it has created a shape: the pixel that
\* opens a shape is not added to it.
buildShapeNewOnly(label, color, shapelist, point, shapeidx_map, gen) ==
    LET new == label \notin DOMAIN shapeidx_map
        prov_type == getProvinceType(color)
    IN IF new
       THEN [shapes |-> Append(shapelist,
                               NewPolygon(color, generateUniqueColor(gen, prov_type))),
             label_to_shapeidx |-> MapPut(shapeidx_map, label, Len(shapelist)),
             generator |-> GeneratorAfter(gen, prov_type)]
       ELSE [shapes |-> [shapelist EXCEPT ![shapeidx_map[label] + 1] =
                            addPixelToShape(@, Pixel(point, color))],
             label_to_shapeidx |-> shapeidx_map,
             generator |-> gen]

\* buildShape: the shape list, the label -> shape index map (indices from 0,
\* as in the code) and the generator after the pixel at point is added to
\* the shape of label.
buildShape(label, color, shapelist, point, shapeidx_map, gen) ==
    LET new == label \notin DOMAIN shapeidx_map
        map1 == IF new THEN MapPut(shapeidx_map, label, Len(shapelist))
                ELSE shapeidx_map
        prov_type == getProvinceType(color)
        list1 == IF new
                 THEN Append(shapelist,
                             NewPolygon(color, generateUniqueColor(gen, prov_type)))
                 ELSE shapelist
        shapeidx == map1[label]
    IN [shapes |-> [list1 EXCEPT ![shapeidx + 1] =
                        addPixelToShape(@, Pixel(point, color))],
        label_to_shapeidx |-> map1,
        generator |-> IF new THEN GeneratorAfter(gen, prov_type) ELSE gen]

\* One iteration of pass2's loop, at pixel (x, y). A root walk that never
\* ends leaves the program in the loop: the step is not taken.
Pass2Step ==
    /\ pc = "pass2"
    /\ y < m_image.height
    /\ LET index == xyToIndex(m_image, x, y)
           color == getColorAt(m_image, x, y)
           point == Point2D(x, y)
       IN IF color = BORDER_COLOR
          THEN /\ m_border_pixels' = Append(m_border_pixels, Pixel(point, color))
               /\ UNCHANGED <<m_label_matrix, m_label_to_color,
                              label_to_shapeidx, shapes, generator>>
          ELSE LET walk == getRootLabel(m_label_parents, m_label_matrix[index])
                   label == walk.root
                   built == buildShape(label, color, shapes, point,
                                       label_to_shapeidx, generator)
               IN /\ walk.terminates
                  /\ m_label_matrix' = [m_label_matrix EXCEPT ![index] = label]
                  /\ m_label_to_color' =
                       IF label \in DOMAIN m_label_to_color
                       THEN m_label_to_color
                       ELSE MapPut(m_label_to_color, label, DefaultColor)
                  /\ shapes' = built.shapes
                  /\ label_to_shapeidx' = built.label_to_shapeidx
                  /\ generator' = built.generator
                  /\ UNCHANGED m_border_pixels
    /\ IF x + 1 < m_image.width
       THEN x' = x + 1 /\ y' = y
       ELSE x' = 0 /\ y' = y + 1
    /\ UNCHANGED <<m_image, prog_opts, m_label_parents, next_label,
                   num_border_pixels, pc, border_i, result, errors, warnings,
                   run, first_result,
                   m_do_estop, m_stage, m_selection, preview_dims, shell_vars>>

\* findAllShapes between pass2 and mergeBorders: the unique colour generator
\* is reset.
Pass2Return ==
    /\ pc = "pass2"
    /\ y >= m_image.height
    /\ generator' = ResetGenerator
    /\ pc' = "pass3"
    /\ border_i' = 1
    /\ UNCHANGED <<m_image, prog_opts, m_label_matrix, m_label_parents,
                   m_border_pixels, m_label_to_color, next_label,
                   num_border_pixels, label_to_shapeidx, shapes, x, y, result,
                   errors, warnings, run, first_result,
                   m_do_estop, m_stage, m_selection, preview_dims, shell_vars>>

\* ----------------------------------------------------------- mergeBorders
\* The fallback walk of mergeBorders from (px, py): rows py.. of the image,
\* each from column px, to the first pixel that is not a border.
RECURSIVE ForwardScan(_, _, _, _)
ForwardScan(image, px, x2, y2) ==
    IF ~(y2 < image.height) THEN nullopt
    ELSE IF ~(x2 < image.width) THEN ForwardScan(image, px, px, y2 + 1)
    ELSE IF getColorAt(image, x2, y2) = BORDER_COLOR
         THEN ForwardScan(image, px, x2 + 1, y2)
         ELSE Some(Point2D(x2, y2))

\* MergeWith looking above the border pixel before it looks to its left.
MergeWithUpFirst(image, point) ==
    LET left == getAdjacentPixel(image, point, "LEFT")
        up == getAdjacentPixel(image, point, "UP")
    IN IF up.has_value THEN up
       ELSE IF left.has_value THEN left
       ELSE ForwardScan(image, point.x, point.x, point.y)

\* The pixel a border pixel at point merges with: left, else up, else the
\* fallback walk; std::nullopt when the walk finds none.
MergeWith(image, point) ==
    LET left == getAdjacentPixel(image, point, "LEFT")
        up == getAdjacentPixel(image, point, "UP")
    IN IF left.has_value THEN left
       ELSE IF up.has_value THEN up
       ELSE ForwardScan(image, point.x, point.x, point.y)

\* mergeBorderPixel without the write to the label matrix.
mergeBorderPixelNoLabel(image, matrix, shapelist, shapeidx_map, pixel, label) ==
    [shapes |-> [shapelist EXCEPT ![shapeidx_map[label] + 1] =
                    addPixelToShape(@, pixel)],
     matrix |-> matrix]

\* mergeBorderPixel opening a shape of its own for the border pixel.
mergeBorderPixelNewShape(image, matrix, shapelist, shapeidx_map, pixel, label) ==
    [shapes |-> Append(shapelist,
                       addPixelToShape(NewPolygon(pixel.color, <<"UNKNOWN", 0>>), pixel)),
     matrix |-> [matrix EXCEPT
                    ![xyToIndex(image, pixel.point.x, pixel.point.y)] = label]]

\* What mergeBorders does with a border pixel once it has the label of the
\* pixel it merges with: the pixel joins that label's shape and the label is
\* written to the border pixel's entry of the label matrix.
mergeBorderPixel(image, matrix, shapelist, shapeidx_map, pixel, label) ==
    [shapes |-> [shapelist EXCEPT ![shapeidx_map[label] + 1] =
                    addPixelToShape(@, pixel)],
     matrix |-> [matrix EXCEPT
                    ![xyToIndex(image, pixel.point.x, pixel.point.y)] = label]]

\* One iteration of mergeBorders' loop that finds a pixel to merge with.
\* label_to_shapeidx.at(label) throws std::out_of_range for a label with no
\* shape, which nothing catches.
MergeBordersStep ==
    /\ pc = "pass3"
    /\ border_i <= Len(m_border_pixels)
    /\ LET pixel == m_border_pixels[border_i]
           merge_with == MergeWith(m_image, pixel.point)
       IN /\ merge_with.has_value
          /\ LET index == xyToIndex(m_image, merge_with.value.x, merge_with.value.y)
                 label == m_label_matrix[index]
                 merged == mergeBorderPixel(m_image, m_label_matrix, shapes,
                                            label_to_shapeidx, pixel, label)
             IN IF label \notin DOMAIN label_to_shapeidx
                THEN /\ pc' = "exception"
                     /\ UNCHANGED <<shapes, m_label_matrix, border_i>>
                ELSE /\ shapes' = merged.shapes
                     /\ m_label_matrix' = merged.matrix
                     /\ border_i' = border_i + 1
                     /\ UNCHANGED pc
    /\ UNCHANGED <<m_image, prog_opts, m_label_parents, m_border_pixels,
                   m_label_to_color, next_label, num_border_pixels,
                   label_to_shapeidx, generator, x, y, result, errors,
                   warnings, run, first_result,
                   m_do_estop, m_stage, m_selection, preview_dims, shell_vars>>

\* MergeBordersFail that writes the error and goes on to the next border
\* pixel.
MergeBordersFailContinue ==
    /\ pc = "pass3"
    /\ border_i <= Len(m_border_pixels)
    /\ ~MergeWith(m_image, m_border_pixels[border_i].point).has_value
    /\ errors' = errors + 1
    /\ border_i' = border_i + 1
    /\ UNCHANGED <<m_image, prog_opts, m_label_matrix, m_label_parents,
                   m_border_pixels, m_label_to_color, next_label,
                   num_border_pixels, label_to_shapeidx, shapes, generator,
                   pc, x, y, result, warnings, run, first_result,
                   m_do_estop, m_stage, m_selection, preview_dims, shell_vars>>

\* The iteration of mergeBorders' loop that finds no pixel to merge with:
\* an error is written, mergeBorders returns false and findAllShapes returns
\* an empty PolygonList.
MergeBordersFail ==
    /\ pc = "pass3"
    /\ border_i <= Len(m_border_pixels)
    /\ ~MergeWith(m_image, m_border_pixels[border_i].point).has_value
    /\ errors' = errors + 1
    /\ result' = <<>>
    /\ pc' = "done"
    /\ UNCHANGED <<m_image, prog_opts, m_label_matrix, m_label_parents,
                   m_border_pixels, m_label_to_color, next_label,
                   num_border_pixels, label_to_shapeidx, shapes, generator,
                   x, y, border_i, warnings, run, first_result,
                   m_do_estop, m_stage, m_selection, preview_dims, shell_vars>>

\* ---------------------------------------------------- errorCheckAllShapes
calcShapeDims(shape) ==
    <<shape.top_right.x - shape.bottom_left.x + 1,
      shape.top_right.y - shape.bottom_left.y + 1>>

\* A bounding box wider or higher than an eighth of the image.
isShapeTooLarge(width, height, image) ==
    8 * width > image.width \/ 8 * height > image.height

\* ShapeWarnings with the minimum size compared by < in place of <=.
ShapeWarningsStrict(shape, index, image) ==
    LET dims == calcShapeDims(shape)
    IN (IF Len(shape.pixels) < MIN_SHAPE_SIZE
        THEN <<[kind |-> "min_size", index |-> index, size |-> Len(shape.pixels)]>>
        ELSE <<>>)
       \o (IF isShapeTooLarge(dims[1], dims[2], image)
           THEN <<[kind |-> "too_large", index |-> index]>>
           ELSE <<>>)

\* The warnings errorCheckAllShapes writes for the shape with 1-based index.
ShapeWarnings(shape, index, image) ==
    LET dims == calcShapeDims(shape)
    IN (IF Len(shape.pixels) <= MIN_SHAPE_SIZE
        THEN <<[kind |-> "min_size", index |-> index, size |-> Len(shape.pixels)]>>
        ELSE <<>>)
       \o (IF isShapeTooLarge(dims[1], dims[2], image)
           THEN <<[kind |-> "too_large", index |-> index]>>
           ELSE <<>>)

RECURSIVE errorCheckAllShapes(_, _, _)
errorCheckAllShapes(shapelist, index, image) ==
    IF index > Len(shapelist) THEN <<>>
    ELSE ShapeWarnings(shapelist[index], index, image)
         \o errorCheckAllShapes(shapelist, index + 1, image)

\* mergeBorders returns true after the last border pixel: the shapes are
\* checked and returned.
MergeBordersReturn ==
    /\ pc = "pass3"
    /\ border_i > Len(m_border_pixels)
    /\ warnings' = warnings \o errorCheckAllShapes(shapes, 1, m_image)
    /\ result' = shapes
    /\ pc' = "done"
    /\ UNCHANGED <<m_image, prog_opts, m_label_matrix, m_label_parents,
                   m_border_pixels, m_label_to_color, next_label,
                   num_border_pixels, label_to_shapeidx, shapes, generator,
                   x, y, border_i, errors, run, first_result,
                   m_do_estop, m_stage, m_selection, preview_dims, shell_vars>>

\* ------------------------------------------------------------- second run
\* findAllShapes2 once more on the same image, in the same process: a new
\* ShapeFinder, the program options and the unique colour generator as the
\* first run left them.
SecondRun ==
    /\ pc = "done"
    /\ run = 1
    /\ run' = 2
    /\ first_result' = result
    /\ \E garbage \in IndeterminateLabels : NewShapeFinder(m_image, garbage)
    /\ next_label' = 1
    /\ num_border_pixels' = 0
    /\ label_to_shapeidx' = EmptyMap
    /\ shapes' = <<>>
    /\ pc' = "pass1"
    /\ x' = 0
    /\ y' = 0
    /\ border_i' = 1
    /\ result' = <<>>
    /\ m_do_estop' = FALSE
    /\ m_stage' = Stages[1]
    /\ UNCHANGED <<m_image, prog_opts, generator, errors, warnings,
                   m_selection, preview_dims, shell_vars>>

\* ---------------------------------------------------------- the GUI thread
\* ShapeFinder::estop(), which MainWindow::openInputMap calls from the GUI
\* thread when the user cancels while the worker thread is in
\* findAllShapes: it sets the flag and returns.
estop ==
    /\ pc \in {"pass1", "pass2", "pass3"}
    /\ ~m_do_estop
    /\ m_do_estop' = TRUE
    /\ UNCHANGED <<m_image, prog_opts, m_label_matrix, m_label_parents,
                   m_border_pixels, m_label_to_color, next_label,
                   num_border_pixels, label_to_shapeidx, shapes, generator,
                   pc, x, y, border_i, result, errors, warnings, run,
                   first_result, m_stage, m_selection, preview_dims, shell_vars>>

\* ShapeFinder::getStage()
getStage == m_stage

BoundingBox(bottom_left, top_right) ==
    [bottom_left |-> bottom_left, top_right |-> top_right]
\* The box of CalcDimsTests.
TestBox == BoundingBox(Point2D(0, 0), Point2D(128, 128))
\* The boxes with bottom_left <= top_right in both coordinates and corners
\* within 0..MaxCoord, and the box of the test.
Boxes ==
    {BoundingBox(Point2D(x1, y1), Point2D(x2, y2)) :
        x1 \in 0..MaxCoord, y1 \in 0..MaxCoord,
        x2 \in 0..MaxCoord, y2 \in 0..MaxCoord}
    \cup {TestBox}
OrderedBoxes ==
    {bb \in Boxes : /\ bb.bottom_left.x <= bb.top_right.x
                    /\ bb.bottom_left.y <= bb.top_right.y}

\* calcDims with both corners counted in.
calcDimsInclusive(bb) ==
    <<bb.top_right.x - bb.bottom_left.x + 1,
      bb.top_right.y - bb.bottom_left.y + 1>>

\* calcDims(bounding_box): the width and the height of the box.
calcDims(bb) ==
    <<bb.top_right.x - bb.bottom_left.x,
      bb.top_right.y - bb.bottom_left.y>>

\* MapDrawingArea::on_draw with a province selected: the width and height
\* of the preview surface are calcDims of the selection's bounding box.
on_draw ==
    /\ m_selection.has_value
    /\ ~preview_dims.has_value
    /\ preview_dims' = Some(calcDims(m_selection.value.bounding_box))
    /\ UNCHANGED <<m_image, prog_opts, m_label_matrix, m_label_parents,
                   m_border_pixels, m_label_to_color, next_label,
                   num_border_pixels, label_to_shapeidx, shapes, generator,
                   pc, x, y, border_i, result, errors, warnings, run,
                   first_result, m_do_estop, m_stage, m_selection,
                   shell_vars>>

\* ------------------------------------------------------- specifications
Next ==
    \/ Pass1Step
    \/ Pass1Return
    \/ Pass2Step
    \/ Pass2Return
    \/ MergeBordersStep
    \/ MergeBordersFail
    \/ MergeBordersReturn

Spec == Init /\ [][Next]_vars

NextTwoRuns == Next \/ SecondRun

\* The two-run specification starts from the images of at most
\* MaxMixedPixels pixels.
InitTwoRuns == Init /\ m_image.width * m_image.height <= MaxMixedPixels

SpecTwoRuns == InitTwoRuns /\ [][NextTwoRuns]_vars

\* One run on each of the large images.
InitLarge == InitShapeFinder(LargeImages) /\ NoSelection /\ ShellIdle

SpecLarge == InitLarge /\ [][Next]_vars

\* The drawing area drawn once with a province selected, over the images of
\* one pixel.
InitOnDraw ==
    /\ InitShapeFinder({image \in Images : image.width * image.height = 1})
    /\ m_selection \in {Some([bounding_box |-> bb]) : bb \in OrderedBoxes}
    /\ preview_dims = nullopt
    /\ ShellIdle

NextOnDraw == on_draw

SpecOnDraw == InitOnDraw /\ [][NextOnDraw]_vars

\* One run with the GUI thread beside it, which may call estop() at any
\* moment of the run; from the images of at most MaxMixedPixels pixels.
NextCancel == Next \/ estop

InitCancel == Init /\ m_image.width * m_image.height <= MaxMixedPixels

SpecCancel == InitCancel /\ [][NextCancel]_vars

\* --------------------------------- SelectionManager and the file tree part
\* A call of the SelectionManager runs to its end, with every callback it
\* invokes and every signal the tree view emits meanwhile, before the GUI
\* thread does anything else.  The operators below work on the record g of
\* what such a call can change:
\*   selected        m_selected_provinces
\*   callbacks       the callback calls made so far
\*   in_select_node  m_in_select_node
\*   rows            the rows selected in the tree view
\*   calls           the selectNode calls finished so far
\*   running         how many selectNode calls are on the stack
\* d is the number of selectNode calls that may still be entered.
GuiState ==
    [selected |-> m_selected_provinces, callbacks |-> <<>>,
     in_select_node |-> m_in_select_node, rows |-> selected_rows,
     calls |-> <<>>, running |-> 0]

\* The rows of a set, as get_selected_rows() lists them.
RECURSIVE RowsInOrder(_)
RowsInOrder(S) ==
    IF S = {} THEN <<>>
    ELSE LET first == CHOOSE r \in S : \A o \in S : r <= o
         IN  <<first>> \o RowsInOrder(S \ {first})

\* Key::lookup in the model's hierarchy: the hierarchy has one province node
\* for each province of the map project.
lookup(key) == map_project.has_value /\ key \in map_project.value.provinces

\* handleNodeValueSelection over the selected rows: every row of the tree
\* is a province node and gives its province ID.
SelectedProvs(g) == RowsInOrder(g.rows)

RECURSIVE selectNode(_, _, _, _)
RECURSIVE update_selections_callback(_, _, _)

\* One finished selectNode call, as select_node_calls records it.
SelectNodeCall(before, after, how) ==
    [nested |-> before.running > 0, exit |-> how,
     touched |-> after.rows # before.rows]

\* The signal_changed handler of the tree view's selection.
signal_changed(g, d) == update_selections_callback(g, TRUE, d)

\* Gtk::TreeSelection::unselect_all, select and unselect: the selection
\* emits signal_changed when it changed.
unselect_all(g, d) ==
    IF g.rows = {} THEN g ELSE signal_changed([g EXCEPT !.rows = {}], d)

select(g, path, d) ==
    IF path \in g.rows THEN g
    ELSE signal_changed([g EXCEPT !.rows = @ \cup {path}], d)

unselect(g, path, d) ==
    IF path \notin g.rows THEN g
    ELSE signal_changed([g EXCEPT !.rows = @ \ {path}], d)

\* m_on_province_selected_callback(label, action, data): the constructor's
\* callback does nothing; the file tree part's callback calls selectNode
\* with the key of the province.
on_province_selected(g, label, action, d) ==
    LET called == [g EXCEPT !.callbacks = Append(@, <<label, action>>)]
    IN  IF m_on_province_selected_callback = "selectNode"
        THEN selectNode(called, <<label>>, action, d)
        ELSE called

\* SelectionManager::selectProvince without the validity check.
selectProvinceNoCheck(g, label, skip_callback, d) ==
    LET called == IF ~skip_callback
                  THEN on_province_selected(g, label, "SET", d)
                  ELSE g
    IN  [called EXCEPT !.selected = {label}]

\* SelectionManager::selectProvince
selectProvince(g, label, skip_callback, d) ==
    LET opt_mproj == getCurrentMapProject
    IN  IF opt_mproj.has_value /\ isValidProvinceID(opt_mproj.value, label)
        THEN LET called == IF ~skip_callback
                           THEN on_province_selected(g, label, "SET", d)
                           ELSE g
             IN  [called EXCEPT !.selected = {label}]
        ELSE g

\* SelectionManager::addProvinceSelection
addProvinceSelection(g, label, skip_callback, d) ==
    LET opt_mproj == getCurrentMapProject
    IN  IF opt_mproj.has_value /\ isValidProvinceID(opt_mproj.value, label)
        THEN LET called == IF ~skip_callback
                           THEN on_province_selected(g, label, "ADD", d)
                           ELSE g
             IN  [called EXCEPT !.selected = @ \cup {label}]
        ELSE g

\* SelectionManager::removeProvinceSelection
removeProvinceSelection(g, label, skip_callback, d) ==
    LET called == IF ~skip_callback
                  THEN on_province_selected(g, label, "REMOVE", d)
                  ELSE g
    IN  [called EXCEPT !.selected = @ \ {label}]

\* SelectionManager::clearProvinceSelection
clearProvinceSelection(g, skip_callback, d) ==
    LET called == IF ~skip_callback
                  THEN on_province_selected(g, INVALID_PROVINCE, "CLEAR", d)
                  ELSE g
    IN  [called EXCEPT !.selected = {}]

\* The loop of update_selections_callback over selected_provs.
RECURSIVE AddSelectedProvs(_, _, _)
AddSelectedProvs(g, selected_provs, d) ==
    IF selected_provs = <<>> THEN g
    ELSE AddSelectedProvs(addProvinceSelection(g, Head(selected_provs), FALSE, d),
                          Tail(selected_provs), d)

\* update_selections_callback: the provinces of the selected rows replace
\* (clear_previous) or extend the SelectionManager's selection.
update_selections_callback(g, clear_previous, d) ==
    LET selected_provs == SelectedProvs(g)
    IN  IF selected_provs # <<>>
        THEN AddSelectedProvs(IF clear_previous
                              THEN clearProvinceSelection(g, FALSE, d)
                              ELSE g,
                              selected_provs, d)
        ELSE g

\* The end of the scope of a selectNode call that set the flag: the
\* function registered with RUN_AT_SCOPE_END clears it.
ScopeEnd(g, before, how) ==
    [g EXCEPT !.in_select_node = FALSE,
              !.running = @ - 1,
              !.calls = Append(@, SelectNodeCall(before, g, how))]

\* The loop of selectNode over the keys: a key that is not in the hierarchy
\* ends the call; the row of a key that is becomes selected (ADD, SET) or
\* unselected.
RECURSIVE SelectKeys(_, _, _, _, _)
SelectKeys(g, before, keys, action, d) ==
    IF keys = <<>> THEN ScopeEnd(g, before, "end")
    ELSE IF ~lookup(Head(keys)) THEN ScopeEnd(g, before, "lookup")
    ELSE SelectKeys(IF action \in {"ADD", "SET"}
                    THEN select(g, Head(keys), d)
                    ELSE unselect(g, Head(keys), d),
                    before, Tail(keys), action, d)

\* MainWindowFileTreePart::selectNode clearing the flag on the early return
\* as well.
selectNodeClearOnReturn(g, keys, action, d) ==
    IF g.in_select_node
    THEN [g EXCEPT !.in_select_node = FALSE,
                   !.calls = Append(@, SelectNodeCall(g, g, "reentered"))]
    ELSE IF d = 0
    THEN [g EXCEPT !.calls = Append(@, SelectNodeCall(g, g, "depth"))]
    ELSE LET entered == [g EXCEPT !.in_select_node = TRUE, !.running = @ + 1]
             cleared == IF action \in {"CLEAR", "SET"}
                        THEN unselect_all(entered, d - 1)
                        ELSE entered
         IN  IF action = "CLEAR" THEN ScopeEnd(cleared, g, "clear")
             ELSE SelectKeys(cleared, g, keys, action, d - 1)

\* MainWindowFileTreePart::selectNode
selectNode(g, keys, action, d) ==
    IF g.in_select_node
    THEN [g EXCEPT !.calls = Append(@, SelectNodeCall(g, g, "reentered"))]
    ELSE IF d = 0
    THEN [g EXCEPT !.calls = Append(@, SelectNodeCall(g, g, "depth"))]
    ELSE LET entered == [g EXCEPT !.in_select_node = TRUE, !.running = @ + 1]
             cleared == IF action \in {"CLEAR", "SET"}
                        THEN unselect_all(entered, d - 1)
                        ELSE entered
         IN  IF action = "CLEAR" THEN ScopeEnd(cleared, g, "clear")
             ELSE SelectKeys(cleared, g, keys, action, d - 1)

\* What a finished event leaves in the state.
Finish(g, op, label, skip_callback) ==
    /\ m_selected_provinces' = g.selected
    /\ province_callbacks' = g.callbacks
    /\ m_in_select_node' = g.in_select_node
    /\ selected_rows' = g.rows
    /\ select_node_calls' = g.calls
    /\ last_call' = Some([op |-> op, label |-> label,
                          skip_callback |-> skip_callback])
    /\ UNCHANGED <<map_project, m_on_province_selected_callback, finder_vars,
                   log_vars, handler_vars, hierarchy_vars>>

\* The GUI calls SelectionManager::selectProvince.
SelectProvinceCall ==
    \E label \in Labels, skip_callback \in BOOLEAN :
        Finish(selectProvince(GuiState, label, skip_callback, MaxDepth),
               "selectProvince", label, skip_callback)

\* The GUI calls SelectionManager::addProvinceSelection.
AddProvinceSelectionCall ==
    \E label \in Labels, skip_callback \in BOOLEAN :
        Finish(addProvinceSelection(GuiState, label, skip_callback, MaxDepth),
               "addProvinceSelection", label, skip_callback)

\* The GUI calls SelectionManager::removeProvinceSelection.
RemoveProvinceSelectionCall ==
    \E label \in Labels, skip_callback \in BOOLEAN :
        Finish(removeProvinceSelection(GuiState, label, skip_callback, MaxDepth),
               "removeProvinceSelection", label, skip_callback)

\* The GUI calls SelectionManager::clearProvinceSelection.
ClearProvinceSelectionCall ==
    \E skip_callback \in BOOLEAN :
        Finish(clearProvinceSelection(GuiState, skip_callback, MaxDepth),
               "clearProvinceSelection", INVALID_PROVINCE, skip_callback)

\* The user clicks a row of the tree view that is not the only selected
\* one: it becomes the selection, and the selection emits signal_changed.
TreeViewClick ==
    \E path \in map_project.value.provinces :
        /\ selected_rows # {path}
        /\ Finish(signal_changed([GuiState EXCEPT !.rows = {path}], MaxDepth),
                  "click", path, FALSE)

\* The shape finder constructed over an image of one red pixel and not run,
\* nothing selected in the drawing area.
FinderIdle ==
    /\ InitShapeFinder({image \in Images : image.width * image.height = 1
                                           /\ image.data[0] = RED})
    /\ prog_opts = [output_stages |-> FALSE, no_gui |-> TRUE]
    /\ m_label_matrix[0] = 0
    /\ NoSelection

\* The SelectionManager alone, with the callback it was constructed with,
\* with or without a project.
InitSelection ==
    /\ FinderIdle
    /\ map_project \in {nullopt} \cup {Some(mproj) : mproj \in MapProjects}
    /\ InitSelectionManager
    /\ InitFileTreePart
    /\ InitLogging
    /\ InitHandler
    /\ InitHierarchyModel

NextSelection ==
    \/ SelectProvinceCall
    \/ AddProvinceSelectionCall
    \/ RemoveProvinceSelectionCall
    \/ ClearProvinceSelectionCall

SpecSelection == InitSelection /\ [][NextSelection]_vars

\* The main window with a project open: the file tree part's selectNode is
\* the SelectionManager's callback and the tree view shows the provinces.
InitFileTree ==
    /\ FinderIdle
    /\ map_project \in {Some(mproj) : mproj \in MapProjects}
    /\ m_selected_provinces = {}
    /\ m_on_province_selected_callback = "selectNode"
    /\ province_callbacks = <<>>
    /\ last_call = nullopt
    /\ InitFileTreePart
    /\ InitLogging
    /\ InitHandler
    /\ InitHierarchyModel

NextFileTree ==
    \/ NextSelection
    \/ TreeViewClick

SpecFileTree == InitFileTree /\ [][NextFileTree]_vars

\* ------------------------------------------------- the log file function
\* A log message: its number in the order logged and where main was when it
\* was logged.
Message(number, logged_at) == [number |-> number, logged_at |-> logged_at]

\* What the file output function works on: the user data (stream, queue),
\* the disable flag, the log file and the value returned.
LogState ==
    [file |-> log_output_file, disable |-> disable_file_log_output,
     queue |-> messages, contents |-> log_file_contents,
     received |-> received, result |-> TRUE]

\* Log::outputToStream on the log file stream: the message reaches the file
\* when the stream is open and the file system takes the write (accepted);
\* otherwise the stream gets its error flag and the call reports failure.
outputToStream(l, message, accepted) ==
    IF l.file.is_open /\ accepted
    THEN [l EXCEPT !.contents = Append(@, message), !.result = TRUE]
    ELSE [l EXCEPT !.file.fail = TRUE, !.result = FALSE]

RECURSIVE WriteQueued(_, _)
\* The while loop popping the message before it is written.
WriteQueuedPopFirst(l, writes_ok) ==
    IF l.queue = <<>> THEN [l EXCEPT !.result = TRUE]
    ELSE LET written == outputToStream([l EXCEPT !.queue = Tail(@)],
                                       Head(l.queue), writes_ok > 0)
         IN  IF ~written.result THEN written
             ELSE WriteQueued(written, writes_ok - 1)

\* The while loop of the file output function; the file system takes the
\* next writes_ok writes.
WriteQueued(l, writes_ok) ==
    IF l.queue = <<>> THEN [l EXCEPT !.result = TRUE]
    ELSE LET written == outputToStream(l, Head(l.queue), writes_ok > 0)
         IN  IF ~written.result THEN written
             ELSE WriteQueued([written EXCEPT !.queue = Tail(@)],
                              writes_ok - 1)

\* The file output function registered with the Logger.
FileOutputFunction(l, message, writes_ok) ==
    IF l.disable THEN [l EXCEPT !.result = TRUE]
    ELSE LET pushed == [l EXCEPT !.queue = Append(@, message),
                                 !.received = Append(@, message)]
         IN  IF pushed.file.fail THEN [pushed EXCEPT !.result = TRUE]
             ELSE WriteQueued(pushed, writes_ok)

\* What a call of the file output function leaves in the state.
Logged(l) ==
    /\ log_output_file' = l.file
    /\ disable_file_log_output' = l.disable
    /\ messages' = l.queue
    /\ log_file_contents' = l.contents
    /\ received' = l.received
    /\ output_result' = Some(l.result)
    /\ next_message' = next_message + 1

\* std::ofstream::open: success opens the stream and clears its error flag,
\* failure sets the flag.
open(file, success) ==
    IF success THEN [is_open |-> TRUE, fail |-> FALSE]
    ELSE [file EXCEPT !.fail = TRUE]

\* The Logger hands a message to the file output function.
LogMessage ==
    /\ next_message <= MaxMessages
    /\ \E writes_ok \in 0..MaxMessages :
         Logged(FileOutputFunction(LogState, Message(next_message, main_pc),
                                   writes_ok))
    /\ UNCHANGED <<main_pc, finder_vars, selection_vars, file_tree_vars,
                   handler_vars, hierarchy_vars>>

\* main sets the log file up: with dont_write_logfiles it disables the file
\* output; otherwise it opens the file and logs where the log goes, or logs
\* the failure to open it and then disables the file output.
SetUpLogFile ==
    /\ main_pc = "registered"
    /\ main_pc' = "running"
    /\ \E dont_write_logfiles \in BOOLEAN, success \in BOOLEAN,
          writes_ok \in 0..(MaxMessages + 1) :
         IF dont_write_logfiles
         THEN /\ disable_file_log_output' = TRUE
              /\ UNCHANGED <<log_output_file, messages, log_file_contents,
                             received, next_message, output_result>>
         ELSE LET opened == [LogState EXCEPT !.file = open(@, success)]
                  logged == FileOutputFunction(opened,
                                Message(next_message, "setup"), writes_ok)
              IN  Logged([logged EXCEPT !.disable = ~success])
    /\ UNCHANGED <<finder_vars, selection_vars, file_tree_vars,
                   handler_vars, hierarchy_vars>>

\* main from the registration of the file output function on.
InitLogFile ==
    /\ FinderIdle
    /\ NoProject
    /\ InitLogging
    /\ InitHandler
    /\ InitHierarchyModel

NextLogFile ==
    \/ LogMessage
    \/ SetUpLogFile

SpecLogFile == InitLogFile /\ [][NextLogFile]_vars

\* ---------------------------------------------------- lastResortHandler
\* What no step of lastResortHandler changes.
beside_handler == <<finder_vars, selection_vars, file_tree_vars, log_vars,
                    hierarchy_vars>>

\* A thread's innermost lastResortHandler call is at that place.
At(t, place) ==
    /\ process = "running"
    /\ handler_pc[t] # <<>>
    /\ handler_pc[t][Len(handler_pc[t])] = place

\* The thread's innermost call moves to that place.
Goto(t, place) ==
    handler_pc' = [handler_pc EXCEPT ![t][Len(handler_pc[t])] = place]

\* SIGABRT, SIGSEGV or SIGFPE is delivered on a thread, which may be in
\* the handler already: main installed lastResortHandler for all three.
SignalDelivered(t) ==
    /\ process = "running"
    /\ Len(handler_pc[t]) < MaxFrames
    /\ handler_pc' = [handler_pc EXCEPT ![t] = Append(@, "check")]
    /\ UNCHANGED <<last_resort_invoked, dump_sequences, process>>
    /\ UNCHANGED beside_handler

\* lastResortHandler reads the flag: set, it reports and calls
\* std::terminate; clear, it goes on to set it.
CheckInvoked(t) ==
    /\ At(t, "check")
    /\ IF last_resort_invoked
       THEN /\ process' = "terminated"
            /\ UNCHANGED handler_pc
       ELSE /\ Goto(t, "set")
            /\ UNCHANGED process
    /\ UNCHANGED <<last_resort_invoked, dump_sequences>>
    /\ UNCHANGED beside_handler

\* lastResortHandler sets the flag and starts the dump sequence.
SetInvoked(t) ==
    /\ At(t, "set")
    /\ last_resort_invoked' = TRUE
    /\ dump_sequences' = dump_sequences + 1
    /\ Goto(t, "dump")
    /\ UNCHANGED process
    /\ UNCHANGED beside_handler

\* The dump sequence: the crash trace file is written and every thread is
\* signalled to dump its backtrace.
DumpAll(t) ==
    /\ At(t, "dump")
    /\ Goto(t, "exit")
    /\ UNCHANGED <<last_resort_invoked, dump_sequences, process>>
    /\ UNCHANGED beside_handler

\* The end of lastResortHandler: the core dump is asked for and std::exit
\* ends the process.
ExitProcess(t) ==
    /\ At(t, "exit")
    /\ process' = "exited"
    /\ UNCHANGED <<last_resort_invoked, dump_sequences, handler_pc>>
    /\ UNCHANGED beside_handler

\* The process with its threads, any of which may get a fatal signal.
InitLastResort ==
    /\ FinderIdle
    /\ NoProject
    /\ InitLogging
    /\ InitHandler
    /\ InitHierarchyModel

NextLastResort ==
    \E t \in Threads :
        \/ SignalDelivered(t)
        \/ CheckInvoked(t)
        \/ SetInvoked(t)
        \/ DumpAll(t)
        \/ ExitProcess(t)

SpecLastResort == InitLastResort /\ [][NextLastResort]_vars

\* ------------------------------------------------------- HierarchyModel
\* A project hierarchy of n nodes: node 1 is the root, every other node has
\* a parent created before it, the children of a group node are kept by
\* name, and a node with children is a group node.
NodeTypes == {"GROUP", "PROPERTY", "LINK"}

HierarchiesOf(n) ==
    {[n |-> n, parent |-> parent, name |-> name, type |-> type] :
        parent \in {f \in [1..n -> 0..(n - 1)] :
                      f[1] = 0 /\ \A i \in 2..n : f[i] >= 1 /\ f[i] < i},
        name \in {f \in [1..n -> 1..n] :
                    \A i, j \in 1..n : f[i] = f[j] => i = j},
        type \in [1..n -> NodeTypes]}

Hierarchies ==
    {h \in UNION {HierarchiesOf(n) : n \in 1..MaxNodes} :
        \A i \in 2..h.n : h.type[h.parent[i]] = "GROUP"}

\* The null pointer.
nullptr == 0

\* IGroupNode::getChildren in the order of iteration: by name.
RECURSIVE NodesByName(_, _)
NodesByName(h, S) ==
    IF S = {} THEN <<>>
    ELSE LET first == CHOOSE c \in S : \A o \in S : h.name[c] <= h.name[o]
         IN  <<first>> \o NodesByName(h, S \ {first})

getChildren(h, node) ==
    NodesByName(h, {c \in 2..h.n : h.parent[c] = node})

\* INode::visit: the node, then the nodes below each of its children, in
\* the order of getChildren.
RECURSIVE visit(_, _)
RECURSIVE VisitEach(_, _)
VisitEach(h, nodes) ==
    IF nodes = <<>> THEN <<>>
    ELSE visit(h, Head(nodes)) \o VisitEach(h, Tail(nodes))

visit(h, node) == <<node>> \o VisitEach(h, getChildren(h, node))

\* The three maps onProjectOpened builds.
RootMaps ==
    [parent_map |-> MapPut(EmptyMap, 1, nullptr),
     ordered_children_map |-> EmptyMap,
     node_index_map |-> MapPut(EmptyMap, 1, 0)]

\* operator[] of the ordered children map: a missing entry is made empty.
ChildrenAt(maps, node) ==
    IF node \in DOMAIN maps.ordered_children_map
    THEN maps.ordered_children_map[node]
    ELSE <<>>

\* The body of the loop over a group node's children, recording the index
\* one too large.
AddChildOneBased(maps, gnode, child) ==
    LET pushed == Append(ChildrenAt(maps, gnode), child)
    IN  [parent_map |-> MapPut(maps.parent_map, child, gnode),
         ordered_children_map |->
             MapPut(maps.ordered_children_map, gnode, pushed),
         node_index_map |-> MapPut(maps.node_index_map, child, Len(pushed))]

\* The body of the loop over a group node's children.
AddChild(maps, gnode, child) ==
    LET pushed == Append(ChildrenAt(maps, gnode), child)
    IN  [parent_map |-> MapPut(maps.parent_map, child, gnode),
         ordered_children_map |->
             MapPut(maps.ordered_children_map, gnode, pushed),
         node_index_map |->
             MapPut(maps.node_index_map, child, Len(pushed) - 1)]

RECURSIVE AddChildren(_, _, _)
AddChildren(maps, gnode, children) ==
    IF children = <<>> THEN maps
    ELSE AddChildren(AddChild(maps, gnode, Head(children)), gnode,
                     Tail(children))

\* The visitor of onProjectOpened over the nodes in visiting order: a link
\* node is resolved, the children of a group node go into the maps.  The
\* result has no value when a link did not resolve.
RECURSIVE BuildMaps(_, _, _, _)
BuildMaps(h, nodes, maps, links_resolve) ==
    IF nodes = <<>> THEN Some(maps)
    ELSE IF h.type[Head(nodes)] = "LINK"
    THEN IF links_resolve
         THEN BuildMaps(h, Tail(nodes), maps, links_resolve)
         ELSE nullopt
    ELSE IF h.type[Head(nodes)] = "GROUP"
    THEN BuildMaps(h, Tail(nodes),
                   AddChildren(maps, Head(nodes), getChildren(h, Head(nodes))),
                   links_resolve)
    ELSE BuildMaps(h, Tail(nodes), maps, links_resolve)

\* HierarchyModel::HierarchyModel
HierarchyModel(node, maps, stamp) ==
    [m_project_hierarchy |-> node,
     m_parent_map |-> maps.parent_map,
     m_ordered_children_map |-> maps.ordered_children_map,
     m_node_index_map |-> maps.node_index_map,
     m_stamp |-> stamp]

\* An iterator: the node it points at and its stamp.
Iterator(user_data, stamp) == [user_data |-> user_data, stamp |-> stamp]

\* HierarchyModel::isValid
isValid(model, it) == it.stamp = model.m_stamp

\* The while loop of get_path_vfunc: from the node up to the root, each
\* index put at the front of the path; the empty path on any error.
RECURSIVE WalkUp(_, _, _)
WalkUp(model, node, path) ==
    IF node = nullptr THEN path
    ELSE IF node \notin DOMAIN model.m_parent_map THEN <<>>
    ELSE LET parent == model.m_parent_map[node]
         IN  IF parent = nullptr
             THEN IF node # model.m_project_hierarchy THEN <<>>
                  ELSE WalkUp(model, parent, <<0>> \o path)
             ELSE IF node \notin DOMAIN model.m_node_index_map THEN <<>>
             ELSE WalkUp(model, parent,
                         <<model.m_node_index_map[node]>> \o path)

\* HierarchyModel::get_path_vfunc
get_path_vfunc(model, it) ==
    IF ~isValid(model, it) THEN <<>>
    ELSE WalkUp(model, it.user_data, <<>>)

\* HierarchyModel::getNthChildForNode: the child, or no value on an error.
getNthChildForNode(model, node, n) ==
    IF node \notin DOMAIN model.m_ordered_children_map THEN nullopt
    ELSE IF n < 0 \/ n >= Len(model.m_ordered_children_map[node]) THEN nullopt
    ELSE Some(model.m_ordered_children_map[node][n + 1])

\* The for loop of get_iter_vfunc over the parts of the path after the
\* first.
RECURSIVE WalkDown(_, _, _)
WalkDown(model, node, parts) ==
    IF parts = <<>> THEN Some(node)
    ELSE LET maybe_node == getNthChildForNode(model, node, Head(parts))
         IN  IF ~maybe_node.has_value THEN nullopt
             ELSE WalkDown(model, maybe_node.value, Tail(parts))

\* HierarchyModel::get_iter_vfunc: whether it succeeded and the iterator.
get_iter_vfunc(model, path) ==
    LET found == WalkDown(model, model.m_project_hierarchy,
                          IF path = <<>> THEN <<>> ELSE Tail(path))
    IN  IF ~found.has_value \/ found.value = nullptr
        THEN [ok |-> FALSE, iter |-> nullopt]
        ELSE [ok |-> TRUE,
              iter |-> Some(Iterator(found.value, model.m_stamp))]

\* What no step of the tree model changes.
beside_hierarchy == <<finder_vars, selection_vars, file_tree_vars, log_vars,
                      handler_vars>>

\* MainWindowFileTreePart::onProjectOpened: the maps are built from the
\* project's hierarchy and a new HierarchyModel, with the next stamp,
\* replaces the old one in the tree view, which drops the iterator and the
\* path it held; nothing changes when a link does not resolve.
onProjectOpened ==
    /\ hierarchy.has_value
    /\ next_stamp < MaxStamp
    /\ \E links_resolve \in BOOLEAN :
         LET maps == BuildMaps(hierarchy.value, visit(hierarchy.value, 1),
                               RootMaps, links_resolve)
         IN  /\ maps.has_value
             /\ m_model' = Some(HierarchyModel(1, maps.value, next_stamp + 1))
             /\ next_stamp' = next_stamp + 1
    /\ iter' = nullopt
    /\ tree_path' = nullopt
    /\ UNCHANGED hierarchy
    /\ UNCHANGED beside_hierarchy

\* The tree view takes an iterator at a node from the model.
IterAtNode ==
    /\ m_model.has_value
    /\ \E node \in DOMAIN m_model.value.m_parent_map :
         iter' = Some([iterator |-> Iterator(node, m_model.value.m_stamp),
                       made_by |-> "model"])
    /\ tree_path' = nullopt
    /\ UNCHANGED <<hierarchy, m_model, next_stamp>>
    /\ UNCHANGED beside_hierarchy

\* The tree view asks the model for the path of the iterator it holds.
GetPath ==
    /\ m_model.has_value
    /\ iter.has_value
    /\ tree_path' = Some(get_path_vfunc(m_model.value, iter.value.iterator))
    /\ UNCHANGED <<hierarchy, m_model, next_stamp, iter>>
    /\ UNCHANGED beside_hierarchy

\* The tree view asks the model for the iterator of the path it holds.
GetIter ==
    /\ m_model.has_value
    /\ tree_path.has_value
    /\ LET got == get_iter_vfunc(m_model.value, tree_path.value)
       IN  iter' = IF got.ok
                   THEN Some([iterator |-> got.iter.value,
                              made_by |-> "get_iter_vfunc"])
                   ELSE nullopt
    /\ UNCHANGED <<hierarchy, m_model, next_stamp, tree_path>>
    /\ UNCHANGED beside_hierarchy

\* A project with one of the hierarchies is loaded; the file tree part has
\* no model yet.
InitTreeModel ==
    /\ FinderIdle
    /\ NoProject
    /\ InitLogging
    /\ InitHandler
    /\ hierarchy \in {Some(h) : h \in Hierarchies}
    /\ m_model = nullopt
    /\ next_stamp = 0
    /\ iter = nullopt
    /\ tree_path = nullopt

NextTreeModel ==
    \/ onProjectOpened
    \/ IterAtNode
    \/ GetPath
    \/ GetIter

SpecTreeModel == InitTreeModel /\ [][NextTreeModel]_vars

\* ------------------------------------------------------------ properties
\* The points of the image, a point's input colour and its label.
AllPoints ==
    {Point2D(px, py) : px \in 0..(m_image.width - 1), py \in 0..(m_image.height - 1)}
ColorOf(p) == getColorAt(m_image, p.x, p.y)
LabelOf(p) == m_label_matrix[xyToIndex(m_image, p.x, p.y)]
NonBorderPoints == {p \in AllPoints : ColorOf(p) # BORDER_COLOR}
BorderPoints == {p \in AllPoints : ColorOf(p) = BORDER_COLOR}
Adjacent4(p, q) ==
    \/ p.y = q.y /\ (p.x = q.x + 1 \/ q.x = p.x + 1)
    \/ p.x = q.x /\ (p.y = q.y + 1 \/ q.y = p.y + 1)

\* The places <<shape, position>> of a shape list where point p stands.
PlacesOf(shapelist, p) ==
    {sp \in UNION {{<<s, i>> : i \in 1..Len(shapelist[s].pixels)} :
                     s \in 1..Len(shapelist)} :
        shapelist[sp[1]].pixels[sp[2]].point = p}
\* The points of a shape's pixel list.
PointsOfShape(shape) == {shape.pixels[i].point : i \in 1..Len(shape.pixels)}

Returned == pc = "done"
\* findAllShapes returned the shapes (mergeBorders returned true).
ReturnedShapes == pc = "done" /\ result # <<>>

\* C1: when findAllShapes returns a non-empty list, every pixel of the
\* image, border-coloured or not, stands in exactly one place of the
\* returned shapes' pixel lists.
C1_Partition ==
    ReturnedShapes =>
        \A p \in AllPoints : Cardinality(PlacesOf(result, p)) = 1

\* C1 witness: a returned list of two shapes or more, over an image with
\* border pixels.
C1_Witness ==
    /\ ReturnedShapes
    /\ Len(result) >= 2
    /\ Cardinality(BorderPoints) >= 2

\* C2: an image with at least one non-border pixel never ends in the empty
\* list and the fatal error; mergeBorders finds a shape for every border
\* pixel.
C2_EmptyOnlyWhenAllBorder ==
    (Returned /\ NonBorderPoints # {}) => (result # <<>> /\ errors = 0)

\* C3: after pass2, two 4-adjacent non-border pixels of the same colour have
\* the same root label and stand in the same shape; along a path of such
\* pixels this gives the same label and shape to any two pixels of one
\* 4-connected region.
C3_MaximalRegions ==
    pc \in {"pass3", "done"} =>
        \A p, q \in NonBorderPoints :
            (Adjacent4(p, q) /\ ColorOf(p) = ColorOf(q)) =>
                /\ LabelOf(p) = LabelOf(q)
                /\ \E s \in 1..Len(shapes) :
                     {p, q} \subseteq PointsOfShape(shapes[s])

\* C4: in every shape, a pixel whose input colour is not the border colour
\* has the shape's source colour, so no shape holds two non-border pixels of
\* different colours.
C4_ColourHomogeneity ==
    /\ \A s \in 1..Len(shapes) :
         \A p \in PointsOfShape(shapes[s]) :
            ColorOf(p) # BORDER_COLOR => ColorOf(p) = shapes[s].color
    /\ \A s \in 1..Len(result) :
         \A p \in PointsOfShape(result[s]) :
            ColorOf(p) # BORDER_COLOR => ColorOf(p) = result[s].color

\* C4 witness: shapes returned for an image where two pixels of different
\* non-border colours touch and a border pixel was absorbed.
C4_Witness ==
    /\ ReturnedShapes
    /\ BorderPoints # {}
    /\ \E p, q \in NonBorderPoints : Adjacent4(p, q) /\ ColorOf(p) # ColorOf(q)

\* C5: once the three passes have completed, the label matrix entry of every
\* pixel is a root label, and the shape label_to_shapeidx gives for it is
\* the shape whose pixel list holds the pixel.
C5_LabelShapeCorrespondence ==
    ReturnedShapes =>
        \A p \in AllPoints :
            /\ LabelOf(p) \notin DOMAIN m_label_parents
            /\ LabelOf(p) \in DOMAIN label_to_shapeidx
            /\ p \in PointsOfShape(result[label_to_shapeidx[LabelOf(p)] + 1])

\* C5 witness: the passes completed on an image with absorbed border pixels
\* and labels merged in pass1.
C5_Witness ==
    /\ ReturnedShapes
    /\ BorderPoints # {}
    /\ DOMAIN m_label_parents # {}
    /\ Len(result) >= 2

MinOf(S) == CHOOSE m \in S : \A n \in S : m <= n
MaxOf(S) == CHOOSE m \in S : \A n \in S : m >= n

\* C6: the bounding box of every returned shape is tight (bottom_left the
\* componentwise minimum, top_right the componentwise maximum of its
\* pixels), and a shape of one pixel has both corners at that pixel.
C6_BoundingBoxTight ==
    /\ Returned =>
         \A s \in 1..Len(result) :
            LET pts == PointsOfShape(result[s])
            IN /\ result[s].bottom_left.x = MinOf({p.x : p \in pts})
               /\ result[s].bottom_left.y = MinOf({p.y : p \in pts})
               /\ result[s].top_right.x = MaxOf({p.x : p \in pts})
               /\ result[s].top_right.y = MaxOf({p.y : p \in pts})
    /\ \A s \in 1..Len(shapes) :
         Len(shapes[s].pixels) = 1 =>
            /\ shapes[s].bottom_left = shapes[s].pixels[1].point
            /\ shapes[s].top_right = shapes[s].pixels[1].point

\* C7: after every addPixelToShape call of pass2 and mergeBorders, every
\* pixel of every shape lies inside the shape's bounding box.
C7_BoundingBoxContains ==
    \A s \in 1..Len(shapes) :
        \A p \in PointsOfShape(shapes[s]) :
            /\ shapes[s].bottom_left.x <= p.x /\ p.x <= shapes[s].top_right.x
            /\ shapes[s].bottom_left.y <= p.y /\ p.y <= shapes[s].top_right.y

\* C7 witness: mergeBorders has added a border pixel to a shape whose pixels
\* are not added in increasing x: a later pixel lies left of an earlier one.
C7_Witness ==
    /\ pc = "pass3"
    /\ border_i > 1
    /\ \E s \in 1..Len(shapes) :
         /\ \E i \in 1..Len(shapes[s].pixels) :
              shapes[s].pixels[i].color = BORDER_COLOR
         /\ \E i, j \in 1..Len(shapes[s].pixels) :
              i < j /\ shapes[s].pixels[j].point.x < shapes[s].pixels[i].point.x

\* The labels reached from l by following the parent map, as far as a walk
\* over distinct entries can go.
RECURSIVE AncestorsOf(_, _, _)
AncestorsOf(parents, l, fuel) ==
    IF l \notin DOMAIN parents \/ fuel = 0 THEN {}
    ELSE {parents[l]} \cup AncestorsOf(parents, parents[l], fuel - 1)

\* C8: every entry of the parent map sends a label to a strictly smaller
\* label that is at least 1, and no label is reachable from itself by
\* following parent entries.
C8_ParentsAcyclic ==
    \A l \in DOMAIN m_label_parents :
        /\ 1 <= m_label_parents[l]
        /\ m_label_parents[l] < l
        /\ l \notin AncestorsOf(m_label_parents, l, Cardinality(DOMAIN m_label_parents))

\* C8 witness: pass1 is running and has recorded two parent entries.
C8_Witness ==
    /\ pc = "pass1"
    /\ Cardinality(DOMAIN m_label_parents) >= 2

C10_ResolveIdempotent ==
    \A l \in 1..(next_label - 1) :
        LET walk == getRootLabel(m_label_parents, l)
        IN /\ walk.terminates
           /\ walk.root \notin DOMAIN m_label_parents
           /\ l \notin DOMAIN m_label_parents => walk.root = l
           /\ getRootLabel(m_label_parents, walk.root).terminates
           /\ getRootLabel(m_label_parents, walk.root).root = walk.root

\* C10 witness: a label whose parent has a parent of its own, so the walk to
\* the root takes two steps.
C10_Witness ==
    \E l \in DOMAIN m_label_parents :
        /\ l < next_label
        /\ m_label_parents[l] \in DOMAIN m_label_parents

\* C11: for an image of one pixel or more, all of them border-coloured,
\* findAllShapes returns the empty list with exactly one error written;
\* mergeBorders returned at the first of the border pixels, none of them was
\* merged and errorCheckAllShapes, which runs only after the last border
\* pixel, did not run.
C11_AllBorderFatal ==
    (Returned /\ AllPoints # {} /\ NonBorderPoints = {}) =>
        /\ result = <<>>
        /\ errors = 1
        /\ border_i = 1
        /\ Len(m_border_pixels) = Cardinality(AllPoints)
        /\ shapes = <<>>
        /\ warnings = <<>>

\* C11 witness: findAllShapes has returned for an all-border image of two
\* pixels or more.
C11_Witness ==
    /\ Returned
    /\ NonBorderPoints = {}
    /\ Cardinality(AllPoints) >= 2
    /\ errors = 1

\* C12: a run of findAllShapes during which estop() was called returns the
\* empty list, never the shapes built so far or the full list.
C12_CancelReturnsEmpty ==
    (Returned /\ m_do_estop) => result = <<>>

\* The place of point p in the raster scan, left to right, top to bottom.
RasterIndex(p) == xyToIndex(m_image, p.x, p.y)
\* Pixel a of a pixel list stands rightly before pixel b: a non-border pixel
\* before a border pixel, and two pixels of one kind in raster order.
PixelBefore(a, b) ==
    IF (ColorOf(a.point) = BORDER_COLOR) = (ColorOf(b.point) = BORDER_COLOR)
    THEN RasterIndex(a.point) < RasterIndex(b.point)
    ELSE ColorOf(b.point) = BORDER_COLOR
\* A shape list in the order of C13.
OrderedShapes(shapelist) ==
    /\ \A s, t \in 1..Len(shapelist) :
         s < t => RasterIndex(shapelist[s].pixels[1].point)
                    < RasterIndex(shapelist[t].pixels[1].point)
    /\ \A s \in 1..Len(shapelist) :
         /\ ColorOf(shapelist[s].pixels[1].point) # BORDER_COLOR
         /\ \A i, j \in 1..Len(shapelist[s].pixels) :
              i < j => PixelBefore(shapelist[s].pixels[i], shapelist[s].pixels[j])

\* C13: the shapes stand in the list in the raster order of their first
\* pixel, the pixel at which pass2 first met their root label; a shape's
\* pixel list is its non-border pixels in raster order, then the border
\* pixels it absorbed in raster order. This holds of the list being built
\* and of the list returned.
C13_Ordering ==
    OrderedShapes(shapes) /\ OrderedShapes(result)

\* C13 witness: a returned list of two shapes or more, one of them with two
\* non-border pixels and two absorbed border pixels or more.
C13_Witness ==
    /\ ReturnedShapes
    /\ Len(result) >= 2
    /\ \E s \in 1..Len(result) :
         /\ Cardinality(PointsOfShape(result[s]) \cap NonBorderPoints) >= 2
         /\ Cardinality(PointsOfShape(result[s]) \cap BorderPoints) >= 2

\* The shapes of the list being built that hold point p.
ShapesOf(p) == {s \in 1..Len(shapes) : p \in PointsOfShape(shapes[s])}
\* The neighbours of a point on its left and above it; points outside the
\* image have none.
LeftOf(p) == Point2D(p.x - 1, p.y)
UpOf(p) == Point2D(p.x, p.y - 1)
\* The border pixels mergeBorders has gone past.
MergedBorderPoints ==
    IF pc \in {"pass3", "done"}
    THEN {m_border_pixels[k].point : k \in 1..(border_i - 1)}
    ELSE {}

\* C14: a border pixel mergeBorders has gone past whose left neighbour is
\* in the image and not a border stands in the shape of that left neighbour
\* and in no other, whatever its up neighbour is; one with no such left
\* neighbour whose up neighbour is in the image and not a border stands in
\* the shape of the up neighbour and in no other.
C14_LeftThenUp ==
    \A b \in MergedBorderPoints :
        IF LeftOf(b) \in NonBorderPoints
        THEN ShapesOf(b) = ShapesOf(LeftOf(b)) /\ Cardinality(ShapesOf(b)) = 1
        ELSE UpOf(b) \in NonBorderPoints =>
               ShapesOf(b) = ShapesOf(UpOf(b)) /\ Cardinality(ShapesOf(b)) = 1

\* C14 witness: a merged border pixel whose left and up neighbours are
\* non-border pixels of two different shapes, and a merged border pixel in
\* column 0 with a non-border pixel above it.
C14_Witness ==
    /\ \E b \in MergedBorderPoints :
         /\ LeftOf(b) \in NonBorderPoints
         /\ UpOf(b) \in NonBorderPoints
         /\ ShapesOf(LeftOf(b)) # ShapesOf(UpOf(b))
    /\ \E b \in MergedBorderPoints : b.x = 0 /\ UpOf(b) \in NonBorderPoints

\* The non-border pixels after point b in raster order, and the first of
\* them.
LaterNonBorder(b) == {p \in NonBorderPoints : RasterIndex(p) > RasterIndex(b)}
FirstNonBorderAfter(b) ==
    CHOOSE p \in LaterNonBorder(b) :
        \A q \in LaterNonBorder(b) : RasterIndex(p) <= RasterIndex(q)

\* C15: a border pixel with no non-border left neighbour and no non-border
\* up neighbour, when a non-border pixel follows it in raster order (the
\* rest of its row, then the rows below from column 0), is absorbed into
\* the shape of the first such pixel: mergeBorders does not fail at it, and
\* once mergeBorders has gone past it, it stands in that pixel's shape.
C15_ForwardScanRaster ==
    pc \in {"pass3", "done"} =>
        \A k \in 1..Len(m_border_pixels) :
            LET b == m_border_pixels[k].point
            IN (/\ LeftOf(b) \notin NonBorderPoints
                /\ UpOf(b) \notin NonBorderPoints
                /\ LaterNonBorder(b) # {}) =>
                   /\ ~(pc = "done" /\ border_i = k)
                   /\ k < border_i => ShapesOf(b) = ShapesOf(FirstNonBorderAfter(b))

\* The minimum-size warnings written for the shape with 1-based index s.
MinSizeWarnings(s) ==
    {k \in 1..Len(warnings) :
        warnings[k].kind = "min_size" /\ warnings[k].index = s}

TooLargeWarnings(s) ==
    {k \in 1..Len(warnings) :
        warnings[k].kind = "too_large" /\ warnings[k].index = s}

\* C17: when findAllShapes returns the shapes, a shape has a too-large
\* warning exactly when the extent of its own pixels, largest coordinate
\* minus smallest plus one, is more than an eighth of the image's width in
\* x or more than an eighth of its height in y.
C17_TooLargeOwnExtent ==
    ReturnedShapes =>
        \A s \in 1..Len(result) :
            LET pts == PointsOfShape(result[s])
                extent_x == MaxOf({p.x : p \in pts}) - MinOf({p.x : p \in pts}) + 1
                extent_y == MaxOf({p.y : p \in pts}) - MinOf({p.y : p \in pts}) + 1
            IN (TooLargeWarnings(s) # {}) <=>
                  (8 * extent_x > m_image.width \/ 8 * extent_y > m_image.height)

\* The mixed-colour warnings written about the neighbour at point q.
MixedColorWarnings(q) ==
    {k \in 1..Len(warnings) :
        warnings[k].kind = "multiple_colors" /\ warnings[k].point = q}
\* The non-border pixels that have q as their left or up neighbour and a
\* colour other than q's.
MixedNeighboursOf(q) ==
    {p \in {Point2D(q.x + 1, q.y), Point2D(q.x, q.y + 1)} :
        /\ isInImage(m_image, p.x, p.y)
        /\ ColorOf(q) # BORDER_COLOR
        /\ ColorOf(p) # BORDER_COLOR
        /\ ColorOf(p) # ColorOf(q)}

\* C18: once pass1 has ended, a pixel has one mixed-colour warning written
\* about it for every non-border pixel of another non-border colour whose
\* left or up neighbour it is, and no other; the two pixels of such a pair
\* have different labels, the neighbour having been taken as absent; and
\* the run went on: the 2x1 image of a red and a green pixel returns two
\* shapes of one pixel each, with no error and exactly one mixed-colour
\* warning.
C18_MixedColourWarning ==
    /\ pc \in {"pass2", "pass3", "done"} =>
         \A q \in AllPoints :
            /\ Cardinality(MixedColorWarnings(q)) = Cardinality(MixedNeighboursOf(q))
            /\ \A p \in MixedNeighboursOf(q) : LabelOf(p) # LabelOf(q)
    /\ (/\ Returned
        /\ m_image.width = 2
        /\ m_image.height = 1
        /\ {m_image.data[0], m_image.data[1]} = {RED, GREEN}) =>
            /\ errors = 0
            /\ Len(result) = 2
            /\ Len(result[1].pixels) = 1
            /\ Len(result[2].pixels) = 1
            /\ Cardinality({k \in 1..Len(warnings) :
                              warnings[k].kind = "multiple_colors"}) = 1

\* C18 witness: shapes returned for an image with a pixel that is the left
\* neighbour of one pixel of another colour and the up neighbour of a
\* second, with the two warnings about it written.
C18_Witness ==
    /\ ReturnedShapes
    /\ \E q \in NonBorderPoints :
         /\ Cardinality(MixedNeighboursOf(q)) = 2
         /\ Cardinality(MixedColorWarnings(q)) = 2

\* The value of a stage as the GUI callback casts it to uint32_t, and the
\* fraction it sets on the progress bar, as <<numerator, denominator>>.
StageNumber(stage) == CHOOSE i \in 0..(Len(Stages) - 1) : Stages[i + 1] = stage
ProgressFraction == <<StageNumber(getStage), StageNumber("DONE")>>

\* C19: the stage getStage() gives follows the run, SCANNING in pass1,
\* RESOLVING in pass2, ABSORBING or VALIDATING from mergeBorders on, and
\* DONE once findAllShapes has returned, when the progress fraction of the
\* GUI callback is 1.
C19_StageProgression ==
    /\ pc = "pass1" => getStage = "SCANNING"
    /\ pc = "pass2" => getStage = "RESOLVING"
    /\ pc = "pass3" => getStage \in {"ABSORBING", "VALIDATING"}
    /\ Returned => /\ getStage = "DONE"
                   /\ ProgressFraction[1] = ProgressFraction[2]

Pass1Done(p) ==
    \/ pc = "pass1" /\ RasterIndex(p) < y * m_image.width + x
    \/ pc = "pass2" /\ x = 0 /\ y = 0
\* Neighbour n of the non-border pixel p is a non-border pixel of the image
\* with p's colour.
Matches(p, n) ==
    /\ n.x >= 0 /\ n.x < m_image.width
    /\ n.y >= 0 /\ n.y < m_image.height
    /\ ColorOf(n) # BORDER_COLOR
    /\ ColorOf(n) = ColorOf(p)
\* The non-border pixels with no matching left or up neighbour.
FreshPoints ==
    {p \in NonBorderPoints : ~Matches(p, LeftOf(p)) /\ ~Matches(p, UpOf(p))}
\* The label the rule of pass1 gives p, from the labels of its neighbours
\* and the set `fresh` of the pixels that open a label.
RuleLabel(p, fresh) ==
    LET l == Matches(p, LeftOf(p))
        u == Matches(p, UpOf(p))
    IN IF l /\ u THEN Min(LabelOf(LeftOf(p)), LabelOf(UpOf(p)))
       ELSE IF l THEN LabelOf(LeftOf(p))
       ELSE IF u THEN LabelOf(UpOf(p))
       ELSE 1 + Cardinality({q \in fresh : RasterIndex(q) < RasterIndex(p)})

\* C21: of the pixels pass1 has labelled, a border pixel has label 0 and a
\* non-border pixel has the label of the rule: the next unused label, the
\* labels being used 1, 2, 3.. in raster order, when no left or up
\* neighbour matches; the matching neighbour's label when one matches or
\* both match with one label; the smaller label when both match with two.
\* next_label is one more than the number of labels used so far, and every
\* non-border label is 1 or more.
C21_Pass1Rule ==
    (pc = "pass1" \/ (pc = "pass2" /\ x = 0 /\ y = 0)) =>
        LET fresh == FreshPoints
        IN /\ \A p \in AllPoints :
                Pass1Done(p) =>
                   IF ColorOf(p) = BORDER_COLOR THEN LabelOf(p) = 0
                   ELSE LabelOf(p) = RuleLabel(p, fresh) /\ LabelOf(p) >= 1
           /\ next_label = 1 + Cardinality({q \in fresh : Pass1Done(q)})

\* C21 witness: pass1 has ended on an image with a border pixel, a pixel
\* whose two neighbours match with different labels, and three labels used.
C21_Witness ==
    /\ pc = "pass2" /\ x = 0 /\ y = 0
    /\ BorderPoints # {}
    /\ next_label >= 4
    /\ \E p \in NonBorderPoints :
         /\ Matches(p, LeftOf(p))
         /\ Matches(p, UpOf(p))
         /\ LabelOf(LeftOf(p)) # LabelOf(UpOf(p))

\* The pixel at pass1's cursor, and whether it is a non-border pixel whose
\* left and up neighbours both match, with two different labels.
CursorPoint == Point2D(x, y)
TwoLabelsMeet(p) ==
    /\ ColorOf(p) # BORDER_COLOR
    /\ Matches(p, LeftOf(p))
    /\ Matches(p, UpOf(p))
    /\ LabelOf(LeftOf(p)) # LabelOf(UpOf(p))
\* The larger and the smaller of the two labels that meet at p.
LargerAt(p) == Max(LabelOf(LeftOf(p)), LabelOf(UpOf(p)))
SmallerAt(p) == Min(LabelOf(LeftOf(p)), LabelOf(UpOf(p)))

C23_RootsAfterPass2 ==
    /\ (pc = "pass3" /\ border_i = 1) =>
         \A p \in AllPoints :
            IF ColorOf(p) = BORDER_COLOR THEN LabelOf(p) = 0
            ELSE LabelOf(p) >= 1 /\ LabelOf(p) \notin DOMAIN m_label_parents
    /\ pc = "pass2" =>
         \A p \in AllPoints : ColorOf(p) = BORDER_COLOR => LabelOf(p) = 0

\* C23 witness: pass2 has ended on an image with border pixels where pass1
\* recorded a parent and pass2 built two shapes or more.
C23_Witness ==
    /\ pc = "pass3" /\ border_i = 1
    /\ BorderPoints # {}
    /\ DOMAIN m_label_parents # {}
    /\ Len(shapes) >= 2

\* C24: the lookup of mergeBorders never throws, and whenever mergeBorders
\* is about to merge a border pixel, the pixel it has found to merge with
\* is a pixel of the image that is not a border, and the label read for it
\* is 1 or more, has no parent entry and has an entry in label_to_shapeidx
\* that names the shape holding that pixel.
C24_MergeTargetHasShape ==
    /\ pc # "exception"
    /\ (pc = "pass3" /\ border_i <= Len(m_border_pixels)) =>
         LET merge_with == MergeWith(m_image, m_border_pixels[border_i].point)
         IN merge_with.has_value =>
              LET target == merge_with.value
                  label == LabelOf(target)
              IN /\ target \in AllPoints
                 /\ ColorOf(target) # BORDER_COLOR
                 /\ label >= 1
                 /\ label \notin DOMAIN m_label_parents
                 /\ label \in DOMAIN label_to_shapeidx
                 /\ target \in PointsOfShape(shapes[label_to_shapeidx[label] + 1])

\* C24 witness: mergeBorders is about to merge a border pixel whose left
\* neighbour is a border pixel it absorbed earlier, with a pixel found by
\* the walk.
C24_Witness ==
    /\ pc = "pass3"
    /\ border_i > 1
    /\ border_i <= Len(m_border_pixels)
    /\ LeftOf(m_border_pixels[border_i].point) = m_border_pixels[border_i - 1].point
    /\ UpOf(m_border_pixels[border_i].point) \notin NonBorderPoints
    /\ MergeWith(m_image, m_border_pixels[border_i].point).has_value

\* Sequence a is the beginning of sequence b.
IsPrefix(a, b) == Len(a) <= Len(b) /\ \A i \in 1..Len(a) : b[i] = a[i]

\* C25: a step of mergeBorders keeps the number and the order of the shapes
\* and every shape's colour and unique colour; a shape's pixel list either
\* stays or gets the border pixel mergeBorders is at appended to it, one
\* shape at most getting it; no corner of a bounding box moves inwards;
\* label_to_shapeidx stays, and so does the label matrix entry of every
\* non-border pixel.
C25_Pass3Frame ==
    [][pc = "pass3" =>
         /\ Len(shapes') = Len(shapes)
         /\ \A s \in 1..Len(shapes) :
              /\ shapes'[s].color = shapes[s].color
              /\ shapes'[s].unique_color = shapes[s].unique_color
              /\ IsPrefix(shapes[s].pixels, shapes'[s].pixels)
              /\ \/ shapes'[s].pixels = shapes[s].pixels
                 \/ /\ border_i <= Len(m_border_pixels)
                    /\ shapes'[s].pixels =
                         Append(shapes[s].pixels, m_border_pixels[border_i])
              /\ shapes'[s].top_right.x >= shapes[s].top_right.x
              /\ shapes'[s].top_right.y >= shapes[s].top_right.y
              /\ shapes'[s].bottom_left.x <= shapes[s].bottom_left.x
              /\ shapes'[s].bottom_left.y <= shapes[s].bottom_left.y
         /\ Cardinality({s \in 1..Len(shapes) : shapes'[s] # shapes[s]}) <= 1
         /\ label_to_shapeidx' = label_to_shapeidx
         /\ \A p \in NonBorderPoints :
              m_label_matrix'[xyToIndex(m_image, p.x, p.y)] = LabelOf(p)]_vars

\* C25 witness: mergeBorders has ended with the shapes returned, two shapes
\* or more, one of which has taken two border pixels or more after the
\* pixels pass2 gave it.
C25_Witness ==
    /\ ReturnedShapes
    /\ Len(result) >= 2
    /\ \E s \in 1..Len(result) :
         /\ Cardinality(PointsOfShape(result[s]) \cap BorderPoints) >= 2
         /\ result[s].top_right.x > 0
         /\ result[s].top_right.y > 0

\* ------------------------------------------------------------------ C26
\* Whether the current map project holds a province of that ID.
ValidInProject(label) ==
    map_project.has_value /\ label \in map_project.value.provinces

\* C26: with a fixed project, a selectProvince or addProvinceSelection call
\* with an ID that is not valid in the current map project, or with no
\* project open, invokes no callback and leaves the selection as it was; a
\* selectProvince call with a valid ID makes the selection exactly that ID;
\* and after every call each selected province ID is a valid one.
C26_SelectionValid ==
    [][LET call == last_call'.value
       IN  /\ (/\ call.op \in {"selectProvince", "addProvinceSelection"}
               /\ ~ValidInProject(call.label))
              => (/\ province_callbacks' = <<>>
                  /\ m_selected_provinces' = m_selected_provinces)
           /\ (call.op = "selectProvince" /\ ValidInProject(call.label))
              => m_selected_provinces' = {call.label}
           /\ \A id \in m_selected_provinces' : ValidInProject(id)]_vars

\* A selectProvince call with an ID the open project does not hold, made
\* while a province was selected.
C26_Witness ==
    /\ last_call.has_value
    /\ last_call.value.op = "selectProvince"
    /\ map_project.has_value
    /\ ~ValidInProject(last_call.value.label)
    /\ last_call.value.label # INVALID_PROVINCE
    /\ m_selected_provinces # {}

\* ------------------------------------------------------------------ C27
\* The exits of a selectNode call that went past the in-progress test.
ProcessedExits == {"clear", "lookup", "end"}

\* C27: selectNode is non-reentrant.  Of the selectNode calls an event
\* makes, each one made while another selectNode call is still running
\* returns at once and leaves the tree selection as it found it; each one
\* made while none is running is processed, to the CLEAR return, to a key
\* lookup failure or to its normal end; and when the event is over the
\* in-progress flag is clear.
C27_SelectNodeNonReentrant ==
    /\ ~m_in_select_node
    /\ \A i \in 1..Len(select_node_calls) :
          LET call == select_node_calls[i]
          IN  IF call.nested
              THEN call.exit = "reentered" /\ ~call.touched
              ELSE call.exit \in ProcessedExits

\* An event in which a selectNode call returned at the CLEAR test, the next
\* one ran to its normal end, and a call made meanwhile returned at once.
C27_Witness ==
    \E i, j, k \in 1..Len(select_node_calls) :
        /\ i < j /\ j < k
        /\ ~select_node_calls[i].nested /\ select_node_calls[i].exit = "clear"
        /\ select_node_calls[j].nested /\ select_node_calls[j].exit = "reentered"
        /\ ~select_node_calls[k].nested /\ select_node_calls[k].exit = "end"
        /\ select_node_calls[k].touched

C29_DumpSequenceOnce == dump_sequences <= 1

\* ------------------------------------------------------------------ C30
\* The place of a node in a sequence of nodes, counted from 0.
IndexIn(nodes, node) == (CHOOSE i \in 1..Len(nodes) : nodes[i] = node) - 1

\* The path of a node from the root of a hierarchy: 0 for the root, then
\* on the way down each node's index among its parent's children.
RECURSIVE PathFromRoot(_, _)
PathFromRoot(h, node) ==
    IF node = 1 THEN <<0>>
    ELSE PathFromRoot(h, h.parent[node])
         \o <<IndexIn(getChildren(h, h.parent[node]), node)>>

\* C30: for every node of the hierarchy that onProjectOpened recorded in
\* the model's maps, get_path_vfunc on an iterator at the node gives the
\* path 0, index in parent, ... from the root, and get_iter_vfunc on that
\* path succeeds with an iterator at the same node carrying the model's
\* stamp; the path and the iterator the tree view got from the model agree
\* in the same way.
C30_PathIterRoundTrip ==
    m_model.has_value =>
        LET model == m_model.value
        IN  /\ \A node \in DOMAIN model.m_parent_map :
                  LET it == Iterator(node, model.m_stamp)
                      path == get_path_vfunc(model, it)
                      got == get_iter_vfunc(model, path)
                  IN  /\ path = PathFromRoot(hierarchy.value, node)
                      /\ got.ok
                      /\ got.iter = Some(it)
            /\ (iter.has_value /\ tree_path.has_value) =>
                  /\ isValid(model, iter.value.iterator)
                  /\ tree_path.value =
                         PathFromRoot(hierarchy.value,
                                      iter.value.iterator.user_data)

\* get_iter_vfunc has given back the iterator of a path that
\* get_path_vfunc made for the second child of the root, a node created
\* before its sibling.
C30_Witness ==
    /\ m_model.has_value
    /\ iter.has_value /\ tree_path.has_value
    /\ iter.value.made_by = "get_iter_vfunc"
    /\ tree_path.value = <<0, 1>>
    /\ iter.value.iterator = Iterator(2, m_model.value.m_stamp)
    /\ m_model.value.m_stamp = MaxStamp

====
